---- MODULE Spec2Model ----
(***************************************************************************)
(* pg-idle-guard: the daemon's poll cycle (internal/cli daemon: monitorLoop,*)
(* pollAndAlert), the pool-alert cooldown gate (alertCooldown) and the      *)
(* auto-terminate policy (shouldTerminate).                                 *)
(*                                                                          *)
(* Time is counted in polling intervals: the ticker fires once per unit, a  *)
(* time.Duration is a number of units. One Tick step is one firing of the   *)
(* ticker: pollAndAlert runs to its return.                                 *)
(***************************************************************************)
EXTENDS Integers, Sequences, FiniteSets, TLC

VARIABLES
    cfg,        \* the loaded configuration (package variable cfg)
    now,        \* the wall clock read by time.Now()
    cooldown,   \* the package variable cooldown (*alertCooldown)
    tracked,    \* monitorLoop's map[int]*trackedIdle
    ctxDone,    \* the daemon context has been cancelled
    loop,       \* where monitorLoop is: "select", "polled", "returned"
                \* ("start": runDaemon has not been called yet)
    last,       \* what the most recent pollAndAlert call was given and did
    episode,    \* per PID: idle alerts sent since the PID was last absent
    gate,       \* per severity: the pool-alert checks and dispatches so far
    got,        \* the latest direct call of shouldTerminate and its result
                \* (of the other functions called directly: the call and
                \* what it returned or left behind)
    rt          \* the runtime around monitorLoop: the signal channel sigCh and
                \* the ticker channel ticker.C (each buffers one value), the
                \* pollAndAlert calls in progress, the ticks fired and taken,
                \* the cycles that met a recoverable error and those taken
                \* with the context cancelled, when the running cycle was
                \* entered and the remote call it is inside

vars == <<cfg, now, cooldown, tracked, ctxDone, loop, last, episode, gate, got, rt>>

----------------------------------------------------------------------------
(* Bounds of the model *)

MaxTime == 3          \* the ticker fires this many times
MaxIdle == 2          \* longest idle duration a session is observed with

PIDs == {1001, 1002}
Apps == {"api", "pg_dump"}
IPs  == {"10.0.0.1", "10.0.0.2"}

SeverityWarning  == "warning"
SeverityCritical == "critical"
Severities == {SeverityWarning, SeverityCritical}

\* The zero time.Time (year 1): every lastPool* field of &alertCooldown{}.
ZeroTime == -1
\* now.Sub(zero time) saturates at the largest Duration, which no configured
\* cooldown exceeds.
MaxDuration == 1000000

Sub(t, u) == IF u = ZeroTime THEN MaxDuration ELSE t - u

\* Op applied to the value of e, which is computed once.
With(e, Op(_)) == CHOOSE r \in {Op(v) : v \in {e}} : TRUE

\* A map with key k set to v, and with key k deleted.
Put(m, k, v) == [x \in (DOMAIN m) \cup {k} |-> IF x = k THEN v ELSE m[x]]
\* A faulty delete that leaves the key in the map.
RemoveNothing(m, k) == m
Remove(m, k) == [x \in (DOMAIN m) \ {k} |-> m[x]]

----------------------------------------------------------------------------
(* internal/postgres/models.go *)

IdleDuration(c, t) == t - c.StateChange

\* float64(total) / float64(available) * 100, for the snapshots the daemon is
\* given below: their available count is 4, for which quotient and product
\* are exact and the result is a whole number (UsagePercentFloat64 is the
\* computation in full).
UsagePercent(p) ==
    LET available == p.MaxConnections - p.ReservedSuperuser IN
    IF available <= 0 THEN 100
    ELSE (p.TotalConnections * 100) \div available

----------------------------------------------------------------------------
(* float64 arithmetic on positive values, as Go computes it: a value is its *)
(* 53-bit significand m (most significant bit first, m[1] = 1) and the      *)
(* exponent e of the last bit, m * 2^e; operations round to nearest, ties   *)
(* to even. Zero is the empty significand.                                  *)

Significand == 53

Float64Zero == [m |-> <<>>, e |-> 0]

RECURSIVE ToNat(_)
ToNat(bits) ==
    IF bits = <<>> THEN 0
    ELSE 2 * ToNat(SubSeq(bits, 1, Len(bits) - 1)) + bits[Len(bits)]

RECURSIVE ToBits(_)
ToBits(n) == IF n = 0 THEN <<>> ELSE ToBits(n \div 2) \o <<n % 2>>

\* bits + 1, with the carry out of the first bit.
Increment(bits) ==
    LET zeros == {i \in 1..Len(bits) : bits[i] = 0} IN
    IF zeros = {} THEN [bits |-> [i \in 1..Len(bits) |-> 0], carry |-> 1]
    ELSE LET k == CHOOSE i \in zeros : \A j \in zeros : j <= i
         IN [bits |-> [i \in 1..Len(bits) |->
                         IF i < k THEN bits[i] ELSE IF i = k THEN 1 ELSE 0],
             carry |-> 0]

\* Round to nearest, ties to even: bits are the first 53 bits, guard the next
\* one, sticky whether anything non-zero follows.
RoundNearestEven(bits, e, guard, sticky) ==
    IF guard = 1 /\ (sticky \/ bits[Len(bits)] = 1)
    THEN With(Increment(bits), LAMBDA r :
         IF r.carry = 1
         THEN [m |-> <<1>> \o SubSeq(r.bits, 1, Len(bits) - 1), e |-> e + 1]
         ELSE [m |-> r.bits, e |-> e])
    ELSE [m |-> bits, e |-> e]

\* n * 2^s / d with d <= n * 2^s < 2 * d.
RECURSIVE Normalize(_, _, _)
Normalize(n, d, s) ==
    IF n < d THEN Normalize(2 * n, d, s + 1)
    ELSE IF n >= 2 * d THEN Normalize(n, 2 * d, s - 1)
    ELSE [n |-> n, d |-> d, s |-> s]

\* The next k bits of r / d, r < d, after the bits in acc, and the remainder
\* after them.
RECURSIVE QuotientBits(_, _, _, _)
QuotientBits(r, d, k, acc) ==
    IF k = 0 THEN [bits |-> acc, r |-> r]
    ELSE IF 2 * r >= d
         THEN QuotientBits(2 * r - d, d, k - 1, Append(acc, 1))
         ELSE QuotientBits(2 * r, d, k - 1, Append(acc, 0))

\* float64(n) / float64(d) for integers n >= 0, d > 0.
Float64Div(n, d) ==
    IF n = 0 THEN Float64Zero
    ELSE With(Normalize(n, d, 0), LAMBDA nz :
         With(QuotientBits(nz.n - nz.d, nz.d, Significand - 1, <<1>>), LAMBDA q :
              LET guard == IF 2 * q.r >= nz.d THEN 1 ELSE 0
              IN RoundNearestEven(q.bits, 0 - (Significand - 1) - nz.s,
                                  guard, 2 * q.r - guard * nz.d # 0)))

\* bits * c for a small integer c, from the last bit up: the bits of the
\* product before those in acc.
RECURSIVE MulSmall(_, _, _, _, _)
MulSmall(bits, c, i, carry, acc) ==
    IF i = 0 THEN ToBits(carry) \o acc
    ELSE IF (bits[i] * c + carry) % 2 = 1
         THEN MulSmall(bits, c, i - 1, (bits[i] * c + carry) \div 2, <<1>> \o acc)
         ELSE MulSmall(bits, c, i - 1, (bits[i] * c + carry) \div 2, <<0>> \o acc)

\* f * float64(c) for an integer c > 0.
Float64Mul(f, c) ==
    IF f.m = <<>> THEN Float64Zero
    ELSE With(MulSmall(f.m, c, Len(f.m), 0, <<>>), LAMBDA product :
         LET extra == Len(product) - Significand IN
         IF extra = 0 THEN [m |-> product, e |-> f.e]
         ELSE RoundNearestEven(SubSeq(product, 1, Significand), f.e + extra,
                  product[Significand + 1],
                  \E i \in (Significand + 2)..Len(product) : product[i] = 1))

\* The whole part of f, for f under 2^31. f >= float64(P) for an integer P is
\* Floor(f) >= P.
Floor(f) ==
    IF f.m = <<>> \/ Len(f.m) + f.e <= 0 THEN 0
    ELSE ToNat(SubSeq(f.m, 1, Len(f.m) + f.e))

\* f is a whole number.
Whole(f) ==
    \/ f.m = <<>>
    \/ /\ Len(f.m) + f.e > 0
       /\ \A i \in (Len(f.m) + f.e + 1)..Len(f.m) : f.m[i] = 0

\* PoolStats.UsagePercent.
UsagePercentFloat64(p) ==
    LET available == p.MaxConnections - p.ReservedSuperuser IN
    IF available <= 0 THEN Float64Div(100, 1)
    ELSE Float64Mul(Float64Div(p.TotalConnections, available), 100)

----------------------------------------------------------------------------
(* alertCooldown.canSendPoolAlert: the result and the receiver afterwards *)

\* Faulty variants of canSendPoolAlert: one timestamp shared by the two
\* severities, and a gate that never records the time of a send.
canSendSharedStamp(a, severity, cooldownDuration, t) ==
    IF severity \in Severities /\ Sub(t, a.lastPoolWarning) >= cooldownDuration
    THEN [ok |-> TRUE, a |-> [lastPoolWarning |-> t, lastPoolCritical |-> t]]
    ELSE [ok |-> FALSE, a |-> a]

\* A faulty gate that opens once per severity and never again.
canSendOnce(a, severity, cooldownDuration, t) ==
    CASE severity = SeverityWarning /\ a.lastPoolWarning = ZeroTime ->
            [ok |-> TRUE, a |-> [a EXCEPT !.lastPoolWarning = t]]
      [] severity = SeverityCritical /\ a.lastPoolCritical = ZeroTime ->
            [ok |-> TRUE, a |-> [a EXCEPT !.lastPoolCritical = t]]
      [] OTHER -> [ok |-> FALSE, a |-> a]

canSendUnrecorded(a, severity, cooldownDuration, t) ==
    CASE severity = SeverityWarning ->
            [ok |-> Sub(t, a.lastPoolWarning) >= cooldownDuration, a |-> a]
      [] severity = SeverityCritical ->
            [ok |-> Sub(t, a.lastPoolCritical) >= cooldownDuration, a |-> a]
      [] OTHER -> [ok |-> FALSE, a |-> a]

canSendPoolAlert(a, severity, cooldownDuration, t) ==
    CASE severity = SeverityWarning ->
            IF Sub(t, a.lastPoolWarning) >= cooldownDuration
            THEN [ok |-> TRUE, a |-> [a EXCEPT !.lastPoolWarning = t]]
            ELSE [ok |-> FALSE, a |-> a]
      [] severity = SeverityCritical ->
            IF Sub(t, a.lastPoolCritical) >= cooldownDuration
            THEN [ok |-> TRUE, a |-> [a EXCEPT !.lastPoolCritical = t]]
            ELSE [ok |-> FALSE, a |-> a]
      [] OTHER -> [ok |-> FALSE, a |-> a]

----------------------------------------------------------------------------
(* shouldTerminate *)

InList(x, list) == \E i \in 1..Len(list) : list[i] = x

\* Faulty variants of the two tests below: RequireConfirmation ignored, and
\* the duration held against the global threshold.
IgnoreConfirmation(protected) == FALSE
UnderGlobalThreshold(duration, protected) == duration < cfg.After

\* The two tests made on the protected-app entry that matches.
NeedsConfirmation(protected) == protected.RequireConfirmation
UnderThreshold(duration, protected) == duration < protected.MinIdleDuration

RECURSIVE protectedLoop(_, _, _, _)
protectedLoop(conn, duration, apps, i) ==
    IF i > Len(apps) THEN TRUE
    ELSE IF conn.ApplicationName = apps[i].Name
         THEN IF NeedsConfirmation(apps[i]) THEN FALSE
              ELSE IF UnderThreshold(duration, apps[i]) THEN FALSE
              ELSE TRUE
         ELSE protectedLoop(conn, duration, apps, i + 1)

\* A faulty shouldTerminate that consults the protected entries before the
\* excluded addresses.
shouldTerminateProtectedFirst(conn, duration) ==
    IF InList(conn.ApplicationName, cfg.ExcludeApps) THEN FALSE
    ELSE IF \E i \in 1..Len(cfg.ProtectedApps) :
               cfg.ProtectedApps[i].Name = conn.ApplicationName
         THEN protectedLoop(conn, duration, cfg.ProtectedApps, 1)
         ELSE ~InList(conn.ClientAddr, cfg.ExcludeIPs)

shouldTerminate(conn, duration) ==
    IF InList(conn.ApplicationName, cfg.ExcludeApps) THEN FALSE
    ELSE IF InList(conn.ClientAddr, cfg.ExcludeIPs) THEN FALSE
    ELSE protectedLoop(conn, duration, cfg.ProtectedApps, 1)

----------------------------------------------------------------------------
(* The alert helper calls (sendPoolAlert, sendIdleTransactionAlert,         *)
(* sendTerminationAlert, sendResolvedAlert), as the events they dispatch.   *)

PoolAlert(severity) ==
    [kind |-> "connection_pool", severity |-> severity, pid |-> 0, duration |-> 0]
IdleAlert(severity, pid, duration) ==
    [kind |-> "idle_transaction", severity |-> severity, pid |-> pid, duration |-> duration]
TerminationAlert(pid, duration) ==
    [kind |-> "connection_terminated", severity |-> "info", pid |-> pid, duration |-> duration]
ResolvedAlert(pid, appName, duration) ==
    [kind |-> "idle_transaction_resolved", severity |-> "resolved", pid |-> pid,
     app |-> appName, duration |-> duration]

\* What a send helper does with its event, the i-th of the cycle: one call
\* on slackClient if it is not nil, then one on webhookClient if it is not
\* nil, whatever the first returned. results[i][c] is whether the call on
\* channel c returns nil.
Attempt(i, channel, ok) == [event |-> i, channel |-> channel, ok |-> ok]

\* A faulty helper that returns on the first error.
FanOutUntilError(i, results) ==
    IF "slack" \in cfg.Channels
    THEN <<Attempt(i, "slack", results[i]["slack"])>>
         \o (IF "webhook" \in cfg.Channels /\ results[i]["slack"]
             THEN <<Attempt(i, "webhook", results[i]["webhook"])>> ELSE <<>>)
    ELSE IF "webhook" \in cfg.Channels
         THEN <<Attempt(i, "webhook", results[i]["webhook"])>> ELSE <<>>

FanOut(i, results) ==
    (IF "slack" \in cfg.Channels
     THEN <<Attempt(i, "slack", results[i]["slack"])>> ELSE <<>>)
    \o (IF "webhook" \in cfg.Channels
        THEN <<Attempt(i, "webhook", results[i]["webhook"])>> ELSE <<>>)

\* The channel calls made for the events of a cycle, in order.
RECURSIVE Attempts(_, _, _)
Attempts(alerts, results, i) ==
    IF i > Len(alerts) THEN <<>>
    ELSE FanOut(i, results) \o Attempts(alerts, results, i + 1)

----------------------------------------------------------------------------
(* The statements of pollAndAlert that evaluate something, as the steps a   *)
(* cycle takes: the pool thresholds, a session's idle thresholds, a         *)
(* session's auto-terminate block, the range over tracked.                  *)

Step(phase, pid) == [phase |-> phase, pid |-> pid]

\* A faulty loop body with the auto-terminate block in front of the
\* threshold tests.
SessionStepsSwapped(pid) == <<Step("terminate", pid), Step("session", pid)>>
\* One iteration of the loop over the list.
SessionSteps(pid) == <<Step("session", pid), Step("terminate", pid)>>

----------------------------------------------------------------------------
(* pollAndAlert, phase 1: connection pool thresholds *)

GatePool(a, severity, t) ==
    LET r == canSendPoolAlert(a, severity, cfg.Cooldown, t) IN
    [a      |-> r.a,
     checks |-> <<[severity |-> severity, ok |-> r.ok]>>,
     alerts |-> IF r.ok THEN <<PoolAlert(severity)>> ELSE <<>>]

\* A faulty pool block whose warning test is an if of its own, not an else.
CheckPoolBothTests(a, stats, t) ==
    LET usagePercent == UsagePercent(stats)
        crit == IF usagePercent >= cfg.CriticalPercent
                THEN GatePool(a, SeverityCritical, t)
                ELSE [a |-> a, checks |-> <<>>, alerts |-> <<>>]
        warn == IF usagePercent >= cfg.WarningPercent
                THEN GatePool(crit.a, SeverityWarning, t)
                ELSE [a |-> crit.a, checks |-> <<>>, alerts |-> <<>>]
    IN [a |-> warn.a, checks |-> crit.checks \o warn.checks,
        alerts |-> crit.alerts \o warn.alerts]

CheckPool(a, stats, t) ==
    LET usagePercent == UsagePercent(stats) IN
    IF usagePercent >= cfg.CriticalPercent THEN GatePool(a, SeverityCritical, t)
    ELSE IF usagePercent >= cfg.WarningPercent THEN GatePool(a, SeverityWarning, t)
    ELSE [a |-> a, checks |-> <<>>, alerts |-> <<>>]

----------------------------------------------------------------------------
(* pollAndAlert, phase 2: the loop over the idle-in-transaction list *)

\* util.TruncateQuery, on a query text given as its sequence of characters:
\* strings.Fields joined by single spaces, then cut to maxLen with "..." in
\* the place of what is cut off.
IsSpace(ch) == ch \in {" ", "\n", "\t", "\r", "\f"}
JoinFields(text) ==
    LET kept == {i \in 1..Len(text) :
                   \/ ~IsSpace(text[i])
                   \/ /\ i > 1 /\ ~IsSpace(text[i - 1])
                      /\ \E j \in (i + 1)..Len(text) : ~IsSpace(text[j])}
        nth(k) == CHOOSE i \in kept : Cardinality({j \in kept : j <= i}) = k
    IN [k \in 1..Cardinality(kept) |-> IF IsSpace(text[nth(k)]) THEN " " ELSE text[nth(k)]]
Truncate(text, maxLen) ==
    IF Len(text) <= maxLen THEN text
    ELSE SubSeq(text, 1, maxLen - 3) \o <<".", ".", ".">>
TruncateQuery(text, maxLen) == Truncate(JoinFields(text), maxLen)
\* The length pollAndAlert keeps of a session's query.
QueryLimit == 100

\* A faulty entry whose firstSeen is the session's state change.
NewTrackedSinceStateChange(conn, t) ==
    [pid |-> conn.PID, appName |-> conn.ApplicationName,
     query |-> TruncateQuery(conn.Query, QueryLimit), firstSeen |-> conn.StateChange,
     warningSent |-> FALSE, criticalSent |-> FALSE]
NewTracked(conn, t) ==
    [pid |-> conn.PID, appName |-> conn.ApplicationName,
     query |-> TruncateQuery(conn.Query, QueryLimit), firstSeen |-> t,
     warningSent |-> FALSE, criticalSent |-> FALSE]

\* A faulty warning test that leaves sessions past the critical threshold to
\* the critical alert alone.
WarningDueBelowCritical(tc, duration) ==
    ~tc.warningSent /\ duration >= cfg.Warning /\ duration < cfg.Critical
\* A faulty warning test that also waits for the pool-alert cooldown.
WarningDueAfterCooldown(tc, duration) ==
    /\ ~tc.warningSent
    /\ duration >= cfg.Warning
    /\ Sub(now + 1, cooldown.lastPoolWarning) >= cfg.Cooldown
WarningDue(tc, duration) == ~tc.warningSent /\ duration >= cfg.Warning
\* A faulty MarkWarning that leaves the flag as it was.
MarkWarningLost(tc) == tc
MarkWarning(tc) == [tc EXCEPT !.warningSent = TRUE]

CriticalDue(tc, duration) == ~tc.criticalSent /\ duration >= cfg.Critical
\* A faulty MarkCritical that starts the entry's flags over.
MarkCriticalOnly(tc) == [tc EXCEPT !.warningSent = FALSE, !.criticalSent = TRUE]
MarkCritical(tc) == [tc EXCEPT !.criticalSent = TRUE]

\* Faulty guards that leave out the global After threshold.
TerminateDueAnyDuration(conn, duration) ==
    /\ cfg.Enabled
    /\ shouldTerminate(conn, duration)
    /\ ~cfg.DryRun

\* The guards in front of the TerminateBackend call.
TerminateDue(conn, duration) ==
    /\ cfg.Enabled
    /\ duration >= cfg.After
    /\ shouldTerminate(conn, duration)
    /\ ~cfg.DryRun

\* TerminateBackend's (success, err): "terminated" is (true, nil), "refused"
\* is (false, nil), "error" is (false, err).
TerminateResults == {"terminated", "refused", "error"}
\* A faulty test that alerts whenever the call returned no error.
TerminationAlertUnlessError(result) == result # "error"
TerminationAlertDue(result) == result = "terminated"

\* A faulty lookup that brings the entry's label and query up to date.
GetTrackedRefreshed(table, conn, t) ==
    IF conn.PID \in DOMAIN table
    THEN [table[conn.PID] EXCEPT !.appName = conn.ApplicationName,
                                 !.query = TruncateQuery(conn.Query, QueryLimit)]
    ELSE NewTracked(conn, t)
\* A faulty lookup that starts a new entry when the session's state change
\* is later than the entry's first observation.
GetTrackedPerEpisode(table, conn, t) ==
    IF conn.PID \in DOMAIN table /\ conn.StateChange <= table[conn.PID].firstSeen
    THEN table[conn.PID] ELSE NewTracked(conn, t)
\* tc, exists := tracked[conn.PID], with the new entry made if there is none.
GetTracked(table, conn, t) ==
    IF conn.PID \in DOMAIN table THEN table[conn.PID] ELSE NewTracked(conn, t)

\* A faulty auto-terminate block that drops the entry of a session it has
\* terminated.
AfterTerminateForget(table, pid, result) ==
    IF result = "terminated" THEN Remove(table, pid) ELSE table
\* The auto-terminate block calls, logs and alerts: whatever TerminateBackend
\* returned ("none" without a call), the table is as the threshold tests
\* left it.
AfterTerminate(table, pid, result) == table

ProcessConn(st, conn, t, termRes) ==
    LET duration == IdleDuration(conn, t)
        tc0  == GetTracked(st.tracked, conn, t)
        warn == WarningDue(tc0, duration)
        tc1  == IF warn THEN MarkWarning(tc0) ELSE tc0
        crit == CriticalDue(tc1, duration)
        tc2  == IF crit THEN MarkCritical(tc1) ELSE tc1
        call == TerminateDue(conn, duration)
        res  == termRes[conn.PID]
    IN  [tracked |-> AfterTerminate(Put(st.tracked, conn.PID, tc2), conn.PID,
                                    IF call THEN res ELSE "none"),
         alerts  |-> st.alerts
                     \o (IF warn THEN <<IdleAlert(SeverityWarning, conn.PID, duration)>> ELSE <<>>)
                     \o (IF crit THEN <<IdleAlert(SeverityCritical, conn.PID, duration)>> ELSE <<>>)
                     \o (IF call /\ TerminationAlertDue(res)
                         THEN <<TerminationAlert(conn.PID, duration)>> ELSE <<>>),
         terms   |-> st.terms
                     \o (IF call THEN <<[pid |-> conn.PID, duration |-> duration, result |-> res]>>
                         ELSE <<>>),
         steps   |-> st.steps \o SessionSteps(conn.PID)]

RECURSIVE connLoop(_, _, _, _, _)
connLoop(st, conns, t, termRes, i) ==
    IF i > Len(conns) THEN st
    ELSE With(ProcessConn(st, conns[i], t, termRes),
              LAMBDA st1 : connLoop(st1, conns, t, termRes, i + 1))

----------------------------------------------------------------------------
(* pollAndAlert, phase 3: resolved transactions. The range over the map    *)
(* visits the keys in an order of the runtime's choosing: order.           *)

\* A faulty test that announces every removal.
ResolvedAlways(tc) == TRUE
ResolvedDue(tc) == tc.warningSent \/ tc.criticalSent

RECURSIVE resolveLoop(_, _, _, _, _)
resolveLoop(st, seenPIDs, t, order, i) ==
    IF i > Len(order) THEN st
    ELSE LET pid == order[i] IN
         IF pid \in DOMAIN st.tracked /\ pid \notin seenPIDs
         THEN LET tc == st.tracked[pid]
                  totalDuration == t - tc.firstSeen
              IN With([st EXCEPT !.tracked = Remove(st.tracked, pid),
                                 !.alerts = st.alerts \o
                                     (IF ResolvedDue(tc)
                                      THEN <<ResolvedAlert(pid, tc.appName, totalDuration)>>
                                      ELSE <<>>)],
                      LAMBDA st1 : resolveLoop(st1, seenPIDs, t, order, i + 1))
         ELSE resolveLoop(st, seenPIDs, t, order, i + 1)

SeenPIDs(conns) == {conns[i].PID : i \in 1..Len(conns)}

----------------------------------------------------------------------------
(* pollAndAlert: what one call returns and leaves behind, at clock t, given *)
(* the outcome of its two fetches, of each TerminateBackend call and the    *)
(* map's iteration order.                                                   *)

\* A faulty pollAndAlert that takes a failed GetIdleTransactions for an empty
\* list: it goes through the resolved loop and returns the error after it.
pollAndAlertEmptyOnError(statsRes, connsRes, termRes, order, t) ==
    IF statsRes.err
    THEN [err |-> TRUE, cooldown |-> cooldown, tracked |-> tracked, conns |-> <<>>,
          checks |-> <<>>, alerts |-> <<>>, terms |-> <<>>, usage |-> 0, steps |-> <<>>]
    ELSE With(CheckPool(cooldown, statsRes.stats, t), LAMBDA pool :
         LET conns == IF connsRes.err THEN <<>> ELSE connsRes.conns
             keys  == IF connsRes.err
                      THEN CHOOSE q \in [1..Cardinality(DOMAIN tracked) -> DOMAIN tracked] :
                             \A p \in DOMAIN tracked : \E i \in DOMAIN q : q[i] = p
                      ELSE order
         IN With(connLoop([tracked |-> tracked, alerts |-> pool.alerts, terms |-> <<>>,
                           steps |-> <<Step("pool", 0)>>],
                          conns, t, termRes, 1), LAMBDA st1 :
            With(resolveLoop(st1, SeenPIDs(conns), t, keys, 1), LAMBDA st2 :
                 [err |-> connsRes.err, cooldown |-> pool.a, tracked |-> st2.tracked,
                  conns |-> conns, checks |-> pool.checks, alerts |-> st2.alerts,
                  terms |-> st2.terms, usage |-> UsagePercent(statsRes.stats),
                  steps |-> st2.steps \o <<Step("reconcile", 0)>>])))

pollAndAlert(statsRes, connsRes, termRes, order, t) ==
    IF statsRes.err
    THEN [err |-> TRUE, cooldown |-> cooldown, tracked |-> tracked, conns |-> <<>>,
          checks |-> <<>>, alerts |-> <<>>, terms |-> <<>>, usage |-> 0, steps |-> <<>>]
    ELSE With(CheckPool(cooldown, statsRes.stats, t), LAMBDA pool :
         IF connsRes.err
         THEN [err |-> TRUE, cooldown |-> pool.a, tracked |-> tracked, conns |-> <<>>,
               checks |-> pool.checks, alerts |-> pool.alerts, terms |-> <<>>,
               usage |-> UsagePercent(statsRes.stats), steps |-> <<Step("pool", 0)>>]
         ELSE With(connLoop([tracked |-> tracked, alerts |-> pool.alerts, terms |-> <<>>,
                             steps |-> <<Step("pool", 0)>>],
                            connsRes.conns, t, termRes, 1), LAMBDA st1 :
              With(resolveLoop(st1, SeenPIDs(connsRes.conns), t, order, 1), LAMBDA st2 :
                   [err |-> FALSE, cooldown |-> pool.a, tracked |-> st2.tracked,
                    conns |-> connsRes.conns, checks |-> pool.checks, alerts |-> st2.alerts,
                    terms |-> st2.terms, usage |-> UsagePercent(statsRes.stats),
                    steps |-> st2.steps \o <<Step("reconcile", 0)>>])))

----------------------------------------------------------------------------
(* What the daemon is run with and what its fetches can return *)

\* A configuration that passes Validate (a connection is configured and
\* warning < critical, both pairs);
\* the pool percentages are DefaultConfig's. Channels are the alert clients
\* runDaemon has set up (slackClient, webhookClient that are not nil):
\* DefaultConfig enables neither.
Config(en, dry, xa, xi, pa) ==
    [Warning |-> 1, Critical |-> 2, WarningPercent |-> 75, CriticalPercent |-> 90,
     Cooldown |-> 2, Enabled |-> en, DryRun |-> dry, After |-> 1,
     ExcludeApps |-> xa, ExcludeIPs |-> xi, ProtectedApps |-> pa,
     Channels |-> {}, HasConnection |-> TRUE]

ProtectedApp(name, min, confirm) ==
    [Name |-> name, MinIdleDuration |-> min, RequireConfirmation |-> confirm]

\* Auto-terminate off, in dry-run, and live with and without an excluded
\* and a protected application (its own threshold above After).
DaemonConfigs ==
    { Config(en, dry, <<>>, <<>>, <<>>) : en \in BOOLEAN, dry \in BOOLEAN }
    \cup
    { Config(TRUE, FALSE, xa, <<>>, pa) :
        xa \in {<<>>, <<"pg_dump">>},
        pa \in {<<>>, <<ProtectedApp("api", 2, FALSE)>>} }

\* The client backends of the observed server.
Backends ==
    { [PID |-> 1001, ApplicationName |-> "api",     ClientAddr |-> "10.0.0.1",
       Query |-> <<"S", " ", "1">>],
      [PID |-> 1002, ApplicationName |-> "pg_dump", ClientAddr |-> "10.0.0.2",
       Query |-> <<"C", "O", "P", "Y">>] }

Connection(b, stateChange) ==
    [PID |-> b.PID, ApplicationName |-> b.ApplicationName,
     ClientAddr |-> b.ClientAddr, Query |-> b.Query, StateChange |-> stateChange]

\* What GetIdleTransactions can return: idle-in-transaction rows of distinct
\* backends, each idle for d, in GetConnections' ORDER BY state_change DESC
\* (the shortest idle first).
IdleLists(backends) ==
    LET rows == {[b |-> b, d |-> d] : b \in backends, d \in 0..MaxIdle}
        seqs == UNION {[1..n -> rows] : n \in 0..Cardinality(backends)}
    IN {q \in seqs :
          /\ \A i, j \in 1..Len(q) : i # j => q[i].b.PID # q[j].b.PID
          /\ \A i, j \in 1..Len(q) : i < j => q[i].d <= q[j].d}

\* The rows of such a list as read at clock t.
Connections(q, t) == [i \in 1..Len(q) |-> Connection(q[i].b, t - q[i].d)]

IdleSessions == IdleLists(Backends)
NoSessions == IdleLists({})

\* GetPoolStats: 50, 75 and 100 percent of the 4 non-reserved connections.
PoolSnapshots ==
    { [MaxConnections |-> 5, ReservedSuperuser |-> 1, TotalConnections |-> n] :
        n \in {2, 3, 4} }
QuietPool ==
    { [MaxConnections |-> 5, ReservedSuperuser |-> 1, TotalConnections |-> 2] }

FetchFailed == [err |-> TRUE]

\* The orders in which a range over a map can visit the keys in S.
Orders(S) ==
    {q \in [1..Cardinality(S) -> S] : \A i, j \in 1..Cardinality(S) : i # j => q[i] # q[j]}

----------------------------------------------------------------------------
(* State *)

NoCall == [called |-> FALSE]
\* The cycle is inside no remote call.
NoRemote == [name |-> "none", state |-> "idle", since |-> 0]
\* Idle alerts sent for a PID since the last successful cycle that did not
\* list it, and whether TerminateBackend has failed for it, and whether it
\* has terminated it, since then.
NoEpisode == [warning |-> 0, critical |-> 0, termErr |-> FALSE, terminated |-> FALSE]
NoCycle == [at |-> 0, err |-> FALSE, conns |-> <<>>, checks |-> <<>>,
            alerts |-> <<>>, terms |-> <<>>, usage |-> 0, steps |-> <<>>,
            attempts |-> <<>>]

\* The state with runDaemon at the given place.
InitAt(configs, at) ==
    /\ cfg \in configs
    /\ now = 0
    /\ cooldown = [lastPoolWarning |-> ZeroTime, lastPoolCritical |-> ZeroTime]
    /\ tracked = << >>
    /\ ctxDone = FALSE
    /\ loop = at
    /\ last = NoCycle
    /\ episode = [p \in PIDs |-> NoEpisode]
    /\ gate = [s \in Severities |->
                 [sentAt |-> ZeroTime, checkedAt |-> ZeroTime, checkedOk |-> FALSE,
                  checks |-> 0]]
    /\ got = NoCall
    /\ rt = [sigCh |-> 0, tickC |-> 0, running |-> 0, fired |-> 0, taken |-> 0,
             faults |-> 0, late |-> 0, entered |-> 0, call |-> NoRemote]

\* The state at the entry of monitorLoop.
InitWith(configs) == InitAt(configs, "select")

Init == InitWith(DaemonConfigs)

CountAlerts(alerts, kind, severity, pid) ==
    Cardinality({i \in 1..Len(alerts) :
        alerts[i].kind = kind /\ alerts[i].severity = severity /\ alerts[i].pid = pid})

Delivered(attempts, i) ==
    \E k \in 1..Len(attempts) : attempts[k].event = i /\ attempts[k].ok

\* A faulty bookkeeping that takes back the flag of an idle alert no channel
\* call has delivered.
BookkeepingIfDelivered(r, attempts) ==
    LET lost(p, severity) ==
            \E i \in 1..Len(r.alerts) :
              /\ r.alerts[i] = IdleAlert(severity, p, r.alerts[i].duration)
              /\ ~Delivered(attempts, i)
    IN [cooldown |-> r.cooldown,
        tracked  |-> [p \in DOMAIN r.tracked |->
                        [r.tracked[p] EXCEPT
                           !.warningSent = @ /\ ~lost(p, SeverityWarning),
                           !.criticalSent = @ /\ ~lost(p, SeverityCritical)]]]
\* The send helpers return nothing: what the channel calls of a cycle
\* returned reaches neither the table nor the cooldown timestamps.
Bookkeeping(r, attempts) == [cooldown |-> r.cooldown, tracked |-> r.tracked]

\* What one call of pollAndAlert at clock t, with the given outcomes, does
\* to the daemon's state.
PollEffects(statsRes, connsRes, termRes, order, t) ==
    /\ \E r \in {pollAndAlert(statsRes, connsRes, termRes, order, t)} :
       \E sendRes \in [1..Len(r.alerts) -> [cfg.Channels -> BOOLEAN]] :
       \E kept \in {Bookkeeping(r, Attempts(r.alerts, sendRes, 1))} :
       LET seen == SeenPIDs(r.conns)
       IN /\ now' = t
          /\ cooldown' = kept.cooldown
          /\ tracked' = kept.tracked
          /\ last' = [at |-> t, err |-> r.err, conns |-> r.conns, checks |-> r.checks,
                      alerts |-> r.alerts, terms |-> r.terms, usage |-> r.usage,
                      steps |-> r.steps, attempts |-> Attempts(r.alerts, sendRes, 1)]
          /\ episode' =
               [p \in PIDs |->
                  IF r.err THEN episode[p]
                  ELSE IF p \notin seen THEN NoEpisode
                  ELSE [warning |-> episode[p].warning
                           + CountAlerts(r.alerts, "idle_transaction", SeverityWarning, p),
                        critical |-> episode[p].critical
                           + CountAlerts(r.alerts, "idle_transaction", SeverityCritical, p),
                        termErr |-> \/ episode[p].termErr
                                    \/ \E i \in 1..Len(r.terms) :
                                         r.terms[i].pid = p /\ r.terms[i].result = "error",
                        terminated |-> \/ episode[p].terminated
                                       \/ \E i \in 1..Len(r.terms) :
                                            /\ r.terms[i].pid = p
                                            /\ r.terms[i].result = "terminated"]]
          /\ gate' =
               [s \in Severities |->
                  LET checked == {i \in 1..Len(r.checks) : r.checks[i].severity = s} IN
                  [sentAt    |-> IF CountAlerts(r.alerts, "connection_pool", s, 0) > 0
                                 THEN t ELSE gate[s].sentAt,
                   checkedAt |-> IF checked # {} THEN t ELSE gate[s].checkedAt,
                   checkedOk |-> IF checked # {}
                                 THEN \A i \in checked : r.checks[i].ok
                                 ELSE gate[s].checkedOk,
                   checks    |-> gate[s].checks + Cardinality(checked)]]

\* One call of pollAndAlert at clock t, with the given outcomes.
Poll(statsRes, connsRes, termRes, order, t) ==
    /\ PollEffects(statsRes, connsRes, termRes, order, t)
    /\ UNCHANGED <<cfg, got>>

\* monitorLoop's select takes <-ticker.C, one polling interval after the
\* previous tick: pollAndAlert runs with the given outcomes and returns.
Cycle(statsRes, connsRes, termRes, order) ==
    /\ loop = "select"
    /\ now < MaxTime
    /\ Poll(statsRes, connsRes, termRes, order, now + 1)
    /\ loop' = "polled"
    /\ UNCHANGED <<ctxDone, rt>>

\* GetPoolStats fails (always so once the context is cancelled).
TickStatsFail == Cycle(FetchFailed, FetchFailed, <<>>, <<>>)

\* GetPoolStats succeeds, GetIdleTransactions fails.
TickConnsFail(snapshots) ==
    /\ ~ctxDone
    /\ \E stats \in snapshots :
          Cycle([err |-> FALSE, stats |-> stats], FetchFailed, <<>>, <<>>)

\* Both fetches succeed. Each TerminateBackend call that is made has its own
\* outcome; the range over tracked meets the keys it deletes in some order.
TickPoll(snapshots, lists) ==
    /\ ~ctxDone
    /\ \E stats \in snapshots, q \in lists :
         \E conns \in {Connections(q, now + 1)} :
           \E termRes \in [{conns[i].PID : i \in {j \in 1..Len(conns) :
                               TerminateDue(conns[j], IdleDuration(conns[j], now + 1))}}
                           -> TerminateResults] :
             \E order \in Orders(DOMAIN tracked \ SeenPIDs(conns)) :
               Cycle([err |-> FALSE, stats |-> stats],
                     [err |-> FALSE, conns |-> conns], termRes, order)

\* The for loop comes back to the select; the finished call's locals are gone.
Resume ==
    /\ loop = "polled"
    /\ loop' = "select"
    /\ last' = NoCycle
    /\ UNCHANGED <<cfg, now, cooldown, tracked, ctxDone, episode, gate, got, rt>>

\* The daemon watching idle-in-transaction sessions under a quiet pool.
Next ==
    \/ TickStatsFail
    \/ TickConnsFail(QuietPool)
    \/ TickPoll(QuietPool, IdleSessions)
    \/ Resume

Spec == InitWith(DaemonConfigs) /\ [][Next]_vars

\* The daemon watching the pool of a server with no idle-in-transaction session.
NextPool ==
    \/ TickStatsFail
    \/ TickConnsFail(PoolSnapshots)
    \/ TickPoll(PoolSnapshots, NoSessions)
    \/ Resume

\* DefaultConfig's auto-terminate settings, with a cooldown of 2 and of 3.
PoolConfigs ==
    { [Config(FALSE, TRUE, <<"pguard", "pg_dump">>, <<>>, <<>>) EXCEPT !.Cooldown = cd] :
        cd \in {2, 3} }

SpecPool == InitWith(PoolConfigs) /\ [][NextPool]_vars

\* The daemon with no, one or both alert channels set up, watching the pool
\* and one backend; each channel call succeeds or fails on its own.
DispatchConfigs ==
    { [Config(FALSE, TRUE, <<"pguard", "pg_dump">>, <<>>, <<>>) EXCEPT !.Channels = ch] :
        ch \in {{}, {"webhook"}, {"slack", "webhook"}} }

DispatchSnapshots ==
    { [MaxConnections |-> 5, ReservedSuperuser |-> 1, TotalConnections |-> n] : n \in {2, 4} }

OneSession == IdleLists({b \in Backends : b.ApplicationName = "api"})

NextDispatch ==
    \/ TickStatsFail
    \/ TickConnsFail(DispatchSnapshots)
    \/ TickPoll(DispatchSnapshots, OneSession)
    \/ Resume

SpecDispatch == InitWith(DispatchConfigs) /\ [][NextDispatch]_vars

\* The daemon watching a pool that stays at the warning level (75 percent)
\* and up to two sessions, with auto-terminate live: pool-gate checks and
\* session alerts in the same cycles.
GateConfigs == { Config(TRUE, FALSE, <<>>, <<>>, <<>>) }
WarmPool ==
    { [MaxConnections |-> 5, ReservedSuperuser |-> 1, TotalConnections |-> 3] }

NextGate ==
    \/ TickPoll(WarmPool, IdleSessions)
    \/ Resume

SpecGate == InitWith(GateConfigs) /\ [][NextGate]_vars

\* The daemon watching one backend whose application_name and query can be
\* different each time it is listed (SET application_name, a new statement).
QueryTexts == { <<"S", " ", "1">>, <<"S", " ", " ", "2", "\n">> }
Relabelled ==
    { [PID |-> 1001, ApplicationName |-> app, ClientAddr |-> "10.0.0.1", Query |-> text] :
        app \in Apps, text \in QueryTexts }
RelabelledLists ==
    {<<>>} \cup {<<[b |-> b, d |-> d]>> : b \in Relabelled, d \in 0..MaxIdle}

LabelConfigs == { Config(FALSE, FALSE, <<>>, <<>>, <<>>) }

NextLabel ==
    \/ TickPoll(QuietPool, RelabelledLists)
    \/ Resume

SpecLabel == InitWith(LabelConfigs) /\ [][NextLabel]_vars

----------------------------------------------------------------------------
(* The watch command's pollOnce, run next to the daemon on the snapshots    *)
(* the daemon is given.                                                     *)

\* The length pollOnce keeps of a session's query.
WatchQueryLimit == 60

\* A logEvent call, with the PID its message is about (0: the pool).
LogEvent(level, pid) == [level |-> level, pid |-> pid]

\* A faulty new entry that does not record its first WARN.
NewWatchedUnmarked(conn, t, duration) ==
    [pid |-> conn.PID, appName |-> conn.ApplicationName,
     query |-> TruncateQuery(conn.Query, WatchQueryLimit), firstSeen |-> t,
     warningSent |-> FALSE, criticalSent |-> FALSE]
\* The trackedConnection made for a PID seen for the first time, as the
\* !exists branch leaves it: warningSent is set where the branch logs.
NewWatched(conn, t, duration) ==
    [pid |-> conn.PID, appName |-> conn.ApplicationName,
     query |-> TruncateQuery(conn.Query, WatchQueryLimit), firstSeen |-> t,
     warningSent |-> duration >= cfg.Warning, criticalSent |-> FALSE]

\* One iteration of pollOnce's loop over the list.
WatchConn(st, conn, t) ==
    LET duration == IdleDuration(conn, t)
        exists == conn.PID \in DOMAIN st.tracked
        tc0   == IF exists THEN st.tracked[conn.PID] ELSE NewWatched(conn, t, duration)
        first == ~exists /\ duration >= cfg.Warning
        warn  == ~tc0.warningSent /\ duration >= cfg.Warning
        tc1   == IF warn THEN [tc0 EXCEPT !.warningSent = TRUE] ELSE tc0
        crit  == ~tc1.criticalSent /\ duration >= cfg.Critical
        tc2   == IF crit THEN [tc1 EXCEPT !.criticalSent = TRUE] ELSE tc1
    IN  [tracked |-> Put(st.tracked, conn.PID, tc2),
         log     |-> st.log
                     \o (IF first THEN <<LogEvent("WARN", conn.PID), LogEvent("    ", conn.PID)>>
                         ELSE <<>>)
                     \o (IF warn THEN <<LogEvent("WARN", conn.PID)>> ELSE <<>>)
                     \o (IF crit THEN <<LogEvent("CRIT", conn.PID)>> ELSE <<>>)]

RECURSIVE watchLoop(_, _, _, _)
watchLoop(st, conns, t, i) ==
    IF i > Len(conns) THEN st
    ELSE With(WatchConn(st, conns[i], t), LAMBDA st1 : watchLoop(st1, conns, t, i + 1))

RECURSIVE watchResolved(_, _, _, _)
watchResolved(st, seenPIDs, order, i) ==
    IF i > Len(order) THEN st
    ELSE LET pid == order[i] IN
         IF pid \in DOMAIN st.tracked /\ pid \notin seenPIDs
         THEN With([tracked |-> Remove(st.tracked, pid),
                    log |-> Append(st.log, LogEvent("OK", pid))],
                   LAMBDA st1 : watchResolved(st1, seenPIDs, order, i + 1))
         ELSE watchResolved(st, seenPIDs, order, i + 1)

\* The connection-pressure line at the end of pollOnce.
WatchPool(stats) ==
    IF UsagePercent(stats) >= cfg.CriticalPercent THEN <<LogEvent("CRIT", 0)>>
    ELSE IF UsagePercent(stats) >= cfg.WarningPercent THEN <<LogEvent("WARN", 0)>>
    ELSE <<>>

\* What one call of pollOnce at clock t returns, logs and leaves in its
\* table, given the outcome of its two fetches and the order of its range
\* over the table.
pollOnce(table, statsRes, connsRes, order, t) ==
    IF statsRes.err \/ connsRes.err
    THEN [err |-> TRUE, tracked |-> table, log |-> <<>>]
    ELSE With(watchLoop([tracked |-> table, log |-> <<>>], connsRes.conns, t, 1), LAMBDA st1 :
         With(watchResolved(st1, SeenPIDs(connsRes.conns), order, 1), LAMBDA st2 :
              [err |-> FALSE, tracked |-> st2.tracked,
               log |-> st2.log \o WatchPool(statsRes.stats)]))

\* The table of the watch command: empty until pollOnce has run.
WatchTable == IF got.called THEN got.tracked ELSE << >>

WatchFetches(snapshots, lists, t) ==
    {[stats |-> FetchFailed, conns |-> FetchFailed]}
    \cup {[stats |-> [err |-> FALSE, stats |-> stats], conns |-> FetchFailed] :
             stats \in snapshots}
    \cup {[stats |-> [err |-> FALSE, stats |-> stats],
           conns |-> [err |-> FALSE, conns |-> Connections(q, t)]] :
             stats \in snapshots, q \in lists}

\* The watch command and the daemon each poll at the same tick and are given
\* the same answers; each ranges over its own table in an order of its own.
WatchAndDaemon(snapshots, lists) ==
    /\ loop = "select"
    /\ now < MaxTime
    /\ ~ctxDone
    /\ \E f \in WatchFetches(snapshots, lists, now + 1) :
         LET seen == IF f.conns.err THEN {} ELSE SeenPIDs(f.conns.conns) IN
         \E order \in Orders(IF f.conns.err THEN {} ELSE DOMAIN tracked \ seen),
            watchOrder \in Orders(IF f.conns.err THEN {} ELSE DOMAIN WatchTable \ seen) :
           /\ PollEffects(f.stats, f.conns, << >>, order, now + 1)
           /\ \E w \in {pollOnce(WatchTable, f.stats, f.conns, watchOrder, now + 1)} :
                got' = [called |-> TRUE, fn |-> "pollOnce", err |-> w.err,
                        tracked |-> w.tracked, log |-> w.log]
    /\ loop' = "polled"
    /\ UNCHANGED <<cfg, ctxDone, rt>>

NextWatch ==
    \/ WatchAndDaemon(QuietPool, IdleSessions)
    \/ Resume

SpecWatch == InitWith(LabelConfigs) /\ [][NextWatch]_vars

----------------------------------------------------------------------------
(* The driver with its runtime, step by step: the ticker, the signal        *)
(* goroutine and monitorLoop's select. Here the clock advances when the     *)
(* ticker fires, and a cycle still running when it fires is a slow cycle.   *)

\* A faulty loop that starts pollAndAlert in a goroutine of its own.
AfterCallAsync == "select"
\* Where monitorLoop is once it has called pollAndAlert: inside the call.
AfterCall == "polled"

\* A faulty loop that returns the error of pollAndAlert.
AfterPollExitOnError(err) == IF err THEN "returned" ELSE "select"
\* Where monitorLoop goes when pollAndAlert has returned: the error is logged
\* and the for loop comes back to the select.
AfterPoll(err) == "select"

\* A faulty loop that goes on after <-ctx.Done().
OnDoneContinue == "select"
\* Where monitorLoop goes on <-ctx.Done(): return nil.
OnDone == "returned"

\* A cycle that met a recoverable error: a failed fetch, a TerminateBackend
\* error or a failed channel send.
Faulty(cycle) ==
    \/ cycle.err
    \/ \E k \in 1..Len(cycle.terms) : cycle.terms[k].result = "error"
    \/ \E k \in 1..Len(cycle.attempts) : ~cycle.attempts[k].ok

\* The runtime's ticker fires, one polling interval after it last did, until
\* ticker.Stop(): the tick goes into ticker.C, which holds one tick; with a
\* tick still in it the new one is dropped. A loop waiting in the select has
\* taken the previous tick by then.
TickerFires ==
    /\ loop # "returned"
    /\ now < MaxTime
    /\ loop = "select" => rt.tickC = 0
    /\ now' = now + 1
    /\ rt' = [rt EXCEPT !.tickC = 1, !.fired = @ + 1]
    /\ UNCHANGED <<cfg, cooldown, tracked, ctxDone, loop, last, episode, gate, got>>

\* A faulty queryCtx made from context.Background(): the daemon context's
\* cancellation does not reach the fetches.
QueryCtxDetached == TRUE
\* queryCtx is a child of the daemon context: a fetch can succeed only
\* while that is not cancelled.
QueryCtxLive == ~ctxDone

\* monitorLoop's select takes <-ticker.C and calls pollAndAlert. With the
\* context cancelled the first fetch fails.
TakeTick ==
    /\ loop = "select"
    /\ rt.tickC = 1
    /\ \/ Poll(FetchFailed, FetchFailed, <<>>, <<>>, now)
       \/ /\ QueryCtxLive
          /\ \E stats \in QuietPool :
               Poll([err |-> FALSE, stats |-> stats], FetchFailed, <<>>, <<>>, now)
       \/ /\ QueryCtxLive
          /\ \E stats \in QuietPool, q \in OneSession :
               \E conns \in {Connections(q, now)} :
                 \E termRes \in [{conns[i].PID : i \in {j \in 1..Len(conns) :
                                     TerminateDue(conns[j], IdleDuration(conns[j], now))}}
                                 -> TerminateResults] :
                   \E order \in Orders(DOMAIN tracked \ SeenPIDs(conns)) :
                     Poll([err |-> FALSE, stats |-> stats],
                          [err |-> FALSE, conns |-> conns], termRes, order, now)
    /\ loop' = AfterCall
    /\ rt' = [rt EXCEPT !.tickC = 0, !.running = @ + 1, !.taken = @ + 1,
                        !.faults = @ + (IF Faulty(last') THEN 1 ELSE 0),
                        !.late = @ + (IF ctxDone THEN 1 ELSE 0)]
    /\ UNCHANGED ctxDone

\* pollAndAlert returns to monitorLoop.
Return ==
    /\ loop = "polled"
    /\ loop' = AfterPoll(last.err)
    /\ last' = NoCycle
    /\ rt' = [rt EXCEPT !.running = @ - 1]
    /\ UNCHANGED <<cfg, now, cooldown, tracked, ctxDone, episode, gate, got>>

\* SIGINT or SIGTERM arrives: signal.Notify puts it into sigCh, which holds
\* one signal.
Deliver ==
    /\ rt.sigCh = 0
    /\ rt' = [rt EXCEPT !.sigCh = 1]
    /\ UNCHANGED <<cfg, now, cooldown, tracked, ctxDone, loop, last, episode, gate, got>>

\* The signal goroutine receives from sigCh, shuts the HTTP server down and
\* calls cancel().
Signal ==
    /\ rt.sigCh = 1
    /\ ~ctxDone
    /\ ctxDone' = TRUE
    /\ rt' = [rt EXCEPT !.sigCh = 0]
    /\ UNCHANGED <<cfg, now, cooldown, tracked, loop, last, episode, gate, got>>

\* monitorLoop's select takes <-ctx.Done() and returns nil.
Stop ==
    /\ loop = "select"
    /\ ctxDone
    /\ loop' = OnDone
    /\ UNCHANGED <<cfg, now, cooldown, tracked, ctxDone, last, episode, gate, got, rt>>

NextDriver ==
    \/ TickerFires
    \/ TakeTick
    \/ Return
    \/ Deliver
    \/ Signal
    \/ Stop

\* Auto-terminate live and the webhook set up, so that a cycle can meet each
\* kind of recoverable error.
DriverConfigs ==
    { [Config(TRUE, FALSE, <<>>, <<>>, <<>>) EXCEPT !.Channels = {"webhook"}] }

SpecDriver == InitWith(DriverConfigs) /\ [][NextDriver]_vars

\* The signal goroutine and a running pollAndAlert get to run; a select with
\* both the tick and the cancellation ready picks one at random, so it does
\* not pass the cancellation over for ever.
SpecShutdown ==
    /\ InitWith(DriverConfigs)
    /\ [][NextDriver]_vars
    /\ WF_vars(Signal)
    /\ WF_vars(Return)
    /\ SF_vars(Stop)

----------------------------------------------------------------------------
(* The remote calls of a cycle, one at a time, without what the cycle       *)
(* computes from them: which context each call is given, and how a call in  *)
(* flight ends.                                                             *)

RemoteCalls == {"GetPoolStats", "GetIdleTransactions", "TerminateBackend", "webhook"}

\* cfg.Polling.Timeout and the webhook's http.Client Timeout, in polling
\* intervals (DefaultConfig: interval 5s, timeout 5s; NewWebhookClient: 10s).
PollingTimeout == 1
HTTPTimeout == 2

\* A webhook client whose request carried the cycle's context.
CallContextFromCycle(name) == "queryCtx"
\* The context a remote call runs under: the database calls are given
\* queryCtx, a child of the daemon context; the send helpers take no context
\* and WebhookClient.send builds its request with http.NewRequest, which
\* binds it to context.Background().
CallContext(name) == IF name = "webhook" THEN "Background" ELSE "queryCtx"

\* The context has been cancelled: queryCtx is, once the daemon context is;
\* context.Background() never is.
Cancelled(context) == context = "queryCtx" /\ ctxDone

\* The time at which a call in flight gives up by itself: queryCtx's deadline
\* runs from the entry of pollAndAlert, the HTTP client's from the request.
Deadline(call) ==
    IF CallContext(call.name) = "queryCtx" THEN rt.entered + PollingTimeout
    ELSE call.since + HTTPTimeout

InFlight == rt.call.state = "inflight"

\* monitorLoop's select takes <-ticker.C and enters pollAndAlert.
EnterPoll ==
    /\ loop = "select"
    /\ rt.tickC = 1
    /\ loop' = AfterCall
    /\ rt' = [rt EXCEPT !.tickC = 0, !.running = @ + 1, !.taken = @ + 1,
                        !.entered = now, !.call = NoRemote]
    /\ UNCHANGED <<cfg, now, cooldown, tracked, ctxDone, last, episode, gate, got>>

\* The cycle makes its next remote call.
CallBegins(name) ==
    /\ loop = "polled"
    /\ ~InFlight
    /\ rt' = [rt EXCEPT !.call = [name |-> name, state |-> "inflight", since |-> now]]
    /\ UNCHANGED <<cfg, now, cooldown, tracked, ctxDone, loop, last, episode, gate, got>>

\* The call ends: the remote side answers, the call's context is cancelled,
\* or the call's own deadline passes. A call under a cancelled context
\* returns the context's error.
CallEnds(state) ==
    /\ InFlight
    /\ rt' = [rt EXCEPT !.call.state = state]
    /\ UNCHANGED <<cfg, now, cooldown, tracked, ctxDone, loop, last, episode, gate, got>>

CallAnswers ==
    /\ ~Cancelled(CallContext(rt.call.name))
    /\ now < Deadline(rt.call)
    /\ CallEnds("answered")

CallAborts ==
    /\ Cancelled(CallContext(rt.call.name))
    /\ CallEnds("aborted")

CallExpires ==
    /\ ~Cancelled(CallContext(rt.call.name))
    /\ now >= Deadline(rt.call)
    /\ CallEnds("timeout")

\* Time passes while the cycle runs: the ticker fires. A call in flight has
\* given up by its deadline.
Elapse ==
    /\ InFlight => now < Deadline(rt.call)
    /\ TickerFires

\* pollAndAlert returns, no call in flight.
LeavePoll ==
    /\ ~InFlight
    /\ Return

NextCancel ==
    \/ Elapse
    \/ EnterPoll
    \/ \E name \in RemoteCalls : CallBegins(name)
    \/ CallAnswers
    \/ CallAborts
    \/ CallExpires
    \/ LeavePoll
    \/ Deliver
    \/ Signal
    \/ Stop

SpecCancel == InitWith(DriverConfigs) /\ [][NextCancel]_vars

----------------------------------------------------------------------------
(* The HTTP API started by startHTTPServer: its handlers run in goroutines  *)
(* of the server, next to monitorLoop and the signal goroutine.             *)

StatusOK == 200
StatusInternalServerError == 500
StatusServiceUnavailable == 503

\* GET /health: the status code, from the outcome of client.Ping.
healthHandler(pingErr) ==
    IF pingErr THEN StatusServiceUnavailable ELSE StatusOK

\* A faulty /status handler that also runs the pool-alert gate.
statusHandlerGated(statsRes, connsRes, a, t) ==
    [code |-> IF statsRes.err THEN StatusInternalServerError ELSE StatusOK,
     count |-> IF statsRes.err \/ connsRes.err THEN 0 ELSE Len(connsRes.conns),
     cooldown |-> canSendPoolAlert(a, SeverityWarning, cfg.Cooldown, t).a]
\* GET /status: the status code, idle_transactions_count and the package
\* variable cooldown afterwards, from the outcome of the handler's own
\* GetPoolStats and GetIdleTransactions (whose error is dropped).
statusHandler(statsRes, connsRes, a, t) ==
    [code |-> IF statsRes.err THEN StatusInternalServerError ELSE StatusOK,
     count |-> IF statsRes.err \/ connsRes.err THEN 0 ELSE Len(connsRes.conns),
     cooldown |-> a]

\* A request to /health is served.
ServeHealth ==
    /\ loop # "returned"
    /\ \E pingErr \in BOOLEAN :
         got' = [called |-> TRUE, path |-> "/health",
                 code |-> healthHandler(pingErr), count |-> 0]
    /\ UNCHANGED <<cfg, now, cooldown, tracked, ctxDone, loop, last, episode, gate, rt>>

\* A request to /status is served.
ServeStatus ==
    /\ loop # "returned"
    /\ \E h \in {statusHandler(statsRes, connsRes, cooldown, now) :
                    statsRes \in {FetchFailed}
                        \cup {[err |-> FALSE, stats |-> x] : x \in PoolSnapshots},
                    connsRes \in {FetchFailed}
                        \cup {[err |-> FALSE, conns |-> Connections(q, now)] :
                                 q \in OneSession}} :
           /\ got' = [called |-> TRUE, path |-> "/status", code |-> h.code,
                      count |-> h.count]
           /\ cooldown' = h.cooldown
    /\ UNCHANGED <<cfg, now, tracked, ctxDone, loop, last, episode, gate, rt>>

\* The ticker case of monitorLoop; the fetches of a cancelled context fail.
ServeTick ==
    \/ TickStatsFail
    \/ ~ctxDone /\ TickConnsFail(PoolSnapshots)
    \/ ~ctxDone /\ TickPoll(PoolSnapshots, OneSession)

NextServe ==
    \/ ServeTick
    \/ Resume
    \/ Deliver
    \/ Signal
    \/ Stop
    \/ ServeHealth
    \/ ServeStatus

\* Alerting only, with the HTTP API enabled.
ServeConfigs == { Config(FALSE, FALSE, <<>>, <<>>, <<>>) }

SpecServe == InitWith(ServeConfigs) /\ [][NextServe]_vars

----------------------------------------------------------------------------
(* shouldTerminate called directly, as TestShouldTerminate does: the        *)
(* auto-terminate lists are set, then one connection and duration decided.  *)

SeqsUpTo2(S) == {<<>>} \cup {<<x>> : x \in S} \cup {<<x, y>> : x, y \in S}

ProtectedApps ==
    {ProtectedApp(name, min, confirm) :
        name \in Apps, min \in {1, 2}, confirm \in BOOLEAN}

PolicyConfigs ==
    { Config(TRUE, FALSE, xa, xi, pa) :
        xa \in {<<>>, <<"pg_dump">>, <<"pg_dump", "api">>},
        xi \in {<<>>, <<"10.0.0.2">>},
        pa \in SeqsUpTo2(ProtectedApps) }

CallShouldTerminate ==
    /\ \E app \in Apps, ip \in IPs, duration \in 0..MaxIdle :
         LET conn == [PID |-> 1001, ApplicationName |-> app, ClientAddr |-> ip,
                      StateChange |-> now - duration]
         IN got' = [called |-> TRUE, conn |-> conn, duration |-> duration,
                    result |-> shouldTerminate(conn, duration)]
    /\ UNCHANGED <<cfg, now, cooldown, tracked, ctxDone, loop, last, episode, gate, rt>>

NextPolicy == CallShouldTerminate

SpecPolicy == InitWith(PolicyConfigs) /\ [][NextPolicy]_vars

----------------------------------------------------------------------------
(* The start of the daemon: runDaemon with whatever configuration has been  *)
(* loaded, valid or not.                                                    *)

\* A faulty Validate that leaves the pool percentages unchecked.
ValidateIdleOnly(c) ==
    IF ~c.HasConnection THEN "no database connection configured"
    ELSE IF c.Warning >= c.Critical
         THEN "idle_transaction.warning must be less than critical"
         ELSE "nil"
\* Config.Validate: the error it returns, "nil" for none. HasConnection is
\* connection.url, connection.host or DATABASE_URL being set.
Validate(c) ==
    IF ~c.HasConnection THEN "no database connection configured"
    ELSE IF c.Warning >= c.Critical
         THEN "idle_transaction.warning must be less than critical"
         ELSE IF c.WarningPercent >= c.CriticalPercent
              THEN "connection_pool.warning_percent must be less than critical_percent"
              ELSE "nil"

\* What a configuration file can hold: any pair of idle thresholds, any pair
\* of pool percentages, a connection or none.
LoadedConfigs ==
    { [Config(FALSE, TRUE, <<>>, <<>>, <<>>) EXCEPT
          !.Warning = w, !.Critical = c, !.WarningPercent = wp,
          !.CriticalPercent = cp, !.HasConnection = h] :
        w \in 1..(MaxIdle + 1), c \in 1..(MaxIdle + 1),
        wp \in {75, 90}, cp \in {75, 90}, h \in BOOLEAN }

\* runDaemon up to its call of monitorLoop: Validate, then postgres.NewClient,
\* which connects or fails, then the setup and the loop.
RunDaemon ==
    /\ loop = "start"
    /\ \E connectErr \in BOOLEAN :
         LET err == Validate(cfg) IN
         IF err # "nil"
         THEN /\ loop' = "returned"
              /\ got' = [called |-> TRUE, fn |-> "runDaemon", connected |-> FALSE,
                         err |-> "invalid configuration"]
         ELSE IF connectErr
              THEN /\ loop' = "returned"
                   /\ got' = [called |-> TRUE, fn |-> "runDaemon", connected |-> FALSE,
                              err |-> "connecting to database"]
              ELSE /\ loop' = "select"
                   /\ got' = [called |-> TRUE, fn |-> "runDaemon", connected |-> TRUE,
                              err |-> "nil"]
    /\ UNCHANGED <<cfg, now, cooldown, tracked, ctxDone, last, episode, gate, rt>>

NextStartup ==
    \/ RunDaemon
    \/ TickPoll(PoolSnapshots, OneSession)
    \/ Resume

SpecStartup == InitAt(LoadedConfigs, "start") /\ [][NextStartup]_vars

----------------------------------------------------------------------------
(* PoolStats.UsagePercent called directly, as TestPoolStatsUsagePercent     *)
(* does, and compared with a percentage as the pool thresholds are.         *)

\* max_connections and superuser_reserved_connections of the servers looked
\* at: the daemon's snapshots above, a small server, the test's server.
PoolSizes == {5, 50, 100}
Reserved == {0, 1, 3, 5}
Percents == 1..100

CallUsagePercent ==
    /\ ~got.called
    /\ \E max \in PoolSizes, reserved \in Reserved :
         \E total \in 0..max :
           \E p \in {[MaxConnections |-> max, ReservedSuperuser |-> reserved,
                      TotalConnections |-> total]} :
             \E f \in {UsagePercentFloat64(p)} :
               \E percent \in Percents :
                 got' = [called |-> TRUE, fn |-> "UsagePercent", stats |-> p,
                         floor |-> Floor(f), whole |-> Whole(f),
                         percent |-> percent, atLeast |-> Floor(f) >= percent]
    /\ UNCHANGED <<cfg, now, cooldown, tracked, ctxDone, loop, last, episode, gate, rt>>

NextNumeric == CallUsagePercent

SpecNumeric == InitWith(ServeConfigs) /\ [][NextNumeric]_vars

----------------------------------------------------------------------------
(* The channel clients' send, called directly as the tests do, with the URL *)
(* the client was made with and what the endpoint does with the request.    *)

\* The URLs a client is made with: none, and an endpoint's.
ChannelURLs == {"", "http://hooks.example/pguard"}
\* The final status codes http.Client hands back.
ResponseStatuses == {101, 200, 201, 204, 299, 300, 304, 400, 401, 403, 404, 500, 502, 503}

SendResult(err, requests) == [err |-> err, requests |-> requests]

\* WebhookClient.send: reachable is whether HTTPClient.Do returns a
\* response, status that response's code.
WebhookSend(url, reachable, status) ==
    IF url = "" THEN SendResult("webhook URL not configured", 0)
    ELSE IF ~reachable THEN SendResult("sending request", 1)
    ELSE IF status < 200 \/ status >= 300 THEN SendResult("webhook returned status", 1)
    ELSE SendResult("nil", 1)

\* SlackClient.send.
SlackSend(url, reachable, status) ==
    IF url = "" THEN SendResult("slack webhook URL not configured", 0)
    ELSE IF ~reachable THEN SendResult("sending request", 1)
    ELSE IF status # StatusOK THEN SendResult("slack returned status", 1)
    ELSE SendResult("nil", 1)

CallSend ==
    /\ \E channel \in {"webhook", "slack"}, url \in ChannelURLs,
          reachable \in BOOLEAN, status \in ResponseStatuses :
         \E r \in {IF channel = "webhook" THEN WebhookSend(url, reachable, status)
                    ELSE SlackSend(url, reachable, status)} :
           got' = [called |-> TRUE, fn |-> "send", channel |-> channel, url |-> url,
                   reachable |-> reachable, status |-> status,
                   err |-> r.err, requests |-> r.requests]
    /\ UNCHANGED <<cfg, now, cooldown, tracked, ctxDone, loop, last, episode, gate, rt>>

NextSend == CallSend

SpecSend == InitWith(ServeConfigs) /\ [][NextSend]_vars

----------------------------------------------------------------------------
(* The kill command (runKill), run once with its argument and flags, what   *)
(* the server answers and what is typed at the prompt.                      *)

Digits == <<"0", "1", "2", "3", "4", "5", "6", "7", "8", "9">>
IsDigit(ch) == \E d \in 1..Len(Digits) : Digits[d] = ch
DigitValue(ch) == (CHOOSE d \in 1..Len(Digits) : Digits[d] = ch) - 1

RECURSIVE DecimalValue(_, _)
DecimalValue(text, n) ==
    IF n = 0 THEN 0 ELSE 10 * DecimalValue(text, n - 1) + DigitValue(text[n])

\* strconv.Atoi on the characters of the argument: an optional sign, then
\* decimal digits.
Atoi(text) ==
    LET signed == text # <<>> /\ text[1] \in {"+", "-"}
        digits == IF signed THEN Tail(text) ELSE text
    IN IF digits = <<>> \/ \E i \in 1..Len(digits) : ~IsDigit(digits[i])
       THEN [err |-> TRUE, n |-> 0]
       ELSE [err |-> FALSE,
             n |-> IF signed /\ text[1] = "-" THEN 0 - DecimalValue(digits, Len(digits))
                   ELSE DecimalValue(digits, Len(digits))]

\* strings.TrimSpace and strings.ToLower, on the letters an answer is typed
\* with.
TrimSpace(text) ==
    LET solid == {i \in 1..Len(text) : ~IsSpace(text[i])} IN
    IF solid = {} THEN <<>>
    ELSE SubSeq(text, CHOOSE i \in solid : \A j \in solid : i <= j,
                      CHOOSE i \in solid : \A j \in solid : j <= i)
UpperCase == <<"Y", "E", "S", "N", "O", "M", "A", "B">>
LowerCase == <<"y", "e", "s", "n", "o", "m", "a", "b">>
ToLowerRune(ch) ==
    IF \E k \in 1..Len(UpperCase) : UpperCase[k] = ch
    THEN LowerCase[CHOOSE k \in 1..Len(UpperCase) : UpperCase[k] = ch]
    ELSE ch
ToLower(text) == [i \in 1..Len(text) |-> ToLowerRune(text[i])]

\* readLine: reader.ReadString('\n') fails on input that ends before a
\* newline; the line is returned trimmed.
readLine(input) ==
    LET ends == {i \in 1..Len(input) : input[i] = "\n"} IN
    IF ends = {} THEN [err |-> TRUE, line |-> <<>>]
    ELSE [err |-> FALSE,
          line |-> TrimSpace(SubSeq(input, 1, CHOOSE i \in ends : \A j \in ends : i <= j))]

\* A faulty test that goes on unless the answer is a no.
ProceedUnlessNo(response) == response \notin {<<"n">>, <<"n", "o">>}
\* response == "y" || response == "yes", negated in the source.
Proceed(response) == response \in {<<"y">>, <<"y", "e", "s">>}

BackendCall(name, pid) == [name |-> name, pid |-> pid]
KillResult(err, calls) == [err |-> err, calls |-> calls]

\* runKill: what it returns and the backend calls it has made. connected is
\* whether NewClient succeeds, connsRes what GetConnections returns, input
\* what stdin holds, result what the backend call returns.
runKill(arg, force, cancelOnly, connected, connsRes, input, result) ==
    LET parsed == Atoi(arg)
        pid == parsed.n
        call == BackendCall(IF cancelOnly THEN "CancelBackend" ELSE "TerminateBackend", pid)
        execute == KillResult(IF result = "error" THEN "failed to call backend" ELSE "nil",
                              <<call>>)
    IN IF parsed.err THEN KillResult("invalid PID", <<>>)
       ELSE IF ~connected THEN KillResult("connecting to database", <<>>)
       ELSE IF connsRes.err THEN KillResult("getting connections", <<>>)
       ELSE IF ~\E i \in 1..Len(connsRes.conns) : connsRes.conns[i].PID = pid
            THEN KillResult("no connection found", <<>>)
       ELSE IF force THEN execute
       ELSE With(readLine(input), LAMBDA read :
            IF read.err THEN KillResult("reading input", <<>>)
            ELSE IF ~Proceed(ToLower(read.line)) THEN KillResult("nil", <<>>)
            ELSE execute)

\* What is typed as the PID argument.
KillArgs ==
    { <<"1", "0", "0", "1">>, <<"+", "1", "0", "0", "2">>, <<"1", "0", "0", "3">>,
      <<"1", "0", "0", "1", "x">> }
\* What GetConnections returns: the client backends in any state.
KillLists ==
    {<<>>} \cup {<<Connection(b, 0)>> : b \in Backends}
    \cup {<<Connection(a, 0), Connection(b, 0)>> : a, b \in Backends}
\* What stdin holds at the prompt.
KillInputs ==
    { <<>>, <<"y">>, <<"\n">>, <<"y", "\n">>, <<"Y", "\n">>, <<"y", "e", "s", "\n">>,
      <<" ", "Y", "e", "S", " ", "\r", "\n">>, <<"n", "\n">>, <<"n", "o", "\n">>,
      <<"n", "\n", "y", "\n">>, <<"y", " ", "e", "s", "\n">>,
      <<"m", "a", "y", "b", "e", "\n">> }

CallRunKill ==
    /\ ~got.called
    /\ \E arg \in KillArgs, force \in BOOLEAN, cancelOnly \in BOOLEAN, connected \in BOOLEAN,
          connsRes \in {FetchFailed} \cup {[err |-> FALSE, conns |-> l] : l \in KillLists},
          input \in KillInputs, result \in TerminateResults :
         \E r \in {runKill(arg, force, cancelOnly, connected, connsRes, input, result)} :
           got' = [called |-> TRUE, fn |-> "runKill", arg |-> arg, force |-> force,
                   cancelOnly |-> cancelOnly, connected |-> connected,
                   connsRes |-> connsRes, input |-> input, result |-> result,
                   err |-> r.err, calls |-> r.calls]
    /\ UNCHANGED <<cfg, now, cooldown, tracked, ctxDone, loop, last, episode, gate, rt>>

NextKill == CallRunKill

SpecKill == InitWith(ServeConfigs) /\ [][NextKill]_vars

----------------------------------------------------------------------------
(* The status command (runStatus, buildStatusOutput, getSeverity), called   *)
(* with the thresholds of a valid configuration.                            *)

ExitOK == 0
ExitWarning == 1
ExitCritical == 2

\* A faulty getSeverity for which a duration equal to a threshold has not
\* crossed it.
getSeverityAbove(duration) ==
    IF duration > cfg.Critical THEN "[CRIT]"
    ELSE IF duration > cfg.Warning THEN "[WARN]"
    ELSE ""
getSeverity(duration) ==
    IF duration >= cfg.Critical THEN "[CRIT]"
    ELSE IF duration >= cfg.Warning THEN "[WARN]"
    ELSE ""

\* The severity buildStatusOutput gives an idle transaction in the JSON.
jsonSeverity(duration) ==
    IF duration >= cfg.Critical THEN "critical"
    ELSE IF duration >= cfg.Warning THEN "warning"
    ELSE ""

\* A faulty warning branch that sets the level without looking at it.
SetWarning(st) == [exitCode |-> ExitWarning, overallStatus |-> "warning"]
\* The warning branches of runStatus: if exitCode < ExitWarning { ... }.
RaiseToWarning(st) ==
    IF st.exitCode < ExitWarning
    THEN [exitCode |-> ExitWarning, overallStatus |-> "warning"]
    ELSE st

\* runStatus, the pool thresholds.
poolStatus(usagePercent) ==
    LET st == [exitCode |-> ExitOK, overallStatus |-> "ok"] IN
    IF usagePercent >= cfg.CriticalPercent
    THEN [exitCode |-> ExitCritical, overallStatus |-> "critical"]
    ELSE IF usagePercent >= cfg.WarningPercent THEN RaiseToWarning(st)
    ELSE st

\* runStatus, the loop over idleConns, which breaks at the first critical one.
RECURSIVE idleStatus(_, _, _)
idleStatus(st, durations, i) ==
    IF i > Len(durations) THEN st
    ELSE IF durations[i] >= cfg.Critical
         THEN [exitCode |-> ExitCritical, overallStatus |-> "critical"]
         ELSE IF durations[i] >= cfg.Warning
              THEN idleStatus(RaiseToWarning(st), durations, i + 1)
              ELSE idleStatus(st, durations, i + 1)

\* runStatus: the exit code and the status string, from the pool statistics
\* and the idle durations of the idle-in-transaction connections.
runStatus(stats, durations) ==
    idleStatus(poolStatus(UsagePercent(stats)), durations, 1)

\* Idle warning < idle critical, as Validate has it.
StatusConfigs ==
    { [Config(FALSE, TRUE, <<>>, <<>>, <<>>) EXCEPT !.Warning = p[1], !.Critical = p[2]] :
        p \in {q \in (1..MaxIdle) \X (2..(MaxIdle + 1)) : q[1] < q[2]} }

\* Idle durations from under every warning threshold to over every critical one.
StatusDurations == 0..(MaxIdle + 2)

\* getSeverity, the JSON severity and the daemon's two tests on an entry
\* whose flags are unset, for one duration.
CallGetSeverity ==
    /\ \E duration \in StatusDurations, b \in Backends :
         LET tc == NewTracked(Connection(b, now - duration), now)
         IN got' = [called |-> TRUE, fn |-> "getSeverity", duration |-> duration,
                    label |-> getSeverity(duration), json |-> jsonSeverity(duration),
                    warning |-> WarningDue(tc, duration),
                    critical |-> CriticalDue(tc, duration)]
    /\ UNCHANGED <<cfg, now, cooldown, tracked, ctxDone, loop, last, episode, gate, rt>>

\* pguard status: the idle-in-transaction connections come in the order of
\* the rows; the loop is run on lists in any order, as
\* TestExitCodeDetermination does.
CallRunStatus ==
    /\ \E stats \in PoolSnapshots, durations \in SeqsUpTo2(StatusDurations) :
         \E st \in {runStatus(stats, durations)} :
           got' = [called |-> TRUE, fn |-> "runStatus",
                   usage |-> UsagePercent(stats), durations |-> durations,
                   exitCode |-> st.exitCode, status |-> st.overallStatus]
    /\ UNCHANGED <<cfg, now, cooldown, tracked, ctxDone, loop, last, episode, gate, rt>>

NextStatus ==
    \/ CallGetSeverity
    \/ CallRunStatus

SpecStatus == InitWith(StatusConfigs) /\ [][NextStatus]_vars

----------------------------------------------------------------------------
(* Properties of the poll cycle, checked under Spec *)

\* A step in which pollAndAlert runs, and the rows of a finished cycle.
CycleStep == loop = "select" /\ loop' = "polled"

Listed(cycle, p) == \E i \in 1..Len(cycle.conns) : cycle.conns[i].PID = p
AlertsAbout(alerts, p) == {i \in 1..Len(alerts) : alerts[i].pid = p}

\* C1: for a PID listed by every successful cycle since it was first listed,
\* sendIdleTransactionAlert has been called at most once with severity
\* warning and at most once with severity critical, however many cycles
\* have observed it.
C1_OneAlertPerSeverity ==
    \A p \in PIDs : episode[p].warning <= 1 /\ episode[p].critical <= 1

\* A cycle lists a PID past the critical threshold whose two alerts went out
\* in earlier cycles, and sends nothing about it.
C1_Witness ==
    \E p \in PIDs :
      /\ loop = "polled" /\ ~last.err
      /\ \E i \in 1..Len(last.conns) :
           /\ last.conns[i].PID = p
           /\ IdleDuration(last.conns[i], last.at) >= cfg.Critical
      /\ episode[p].warning = 1 /\ episode[p].critical = 1
      /\ AlertsAbout(last.alerts, p) = {}

\* C2: in a successful cycle a tracked PID missing from the list is removed,
\* with exactly one resolved alert if warningSent or criticalSent was set and
\* with no event about it if neither was; a PID that is not being removed
\* (still listed, never tracked, or the cycle failed) gets no resolved alert.
C2_ResolvedExactlyWhenAlerted ==
    [][CycleStep =>
        \A p \in PIDs :
          LET resolved == CountAlerts(last'.alerts, "idle_transaction_resolved", "resolved", p)
          IN IF ~last'.err /\ p \in DOMAIN tracked /\ ~Listed(last', p)
             THEN /\ p \notin DOMAIN tracked'
                  /\ IF tracked[p].warningSent \/ tracked[p].criticalSent
                     THEN resolved = 1
                     ELSE AlertsAbout(last'.alerts, p) = {}
             ELSE resolved = 0]_vars

\* A cycle has removed a PID and sent its resolved alert.
C2_Witness ==
    \E p \in PIDs :
      /\ loop = "polled" /\ ~last.err
      /\ p \notin DOMAIN tracked
      /\ CountAlerts(last.alerts, "idle_transaction_resolved", "resolved", p) = 1

\* C4: every TerminateBackend call of a cycle is for a listed session, made
\* with auto-terminate enabled, dry-run off, the session's idle duration at
\* least After, and shouldTerminate true for it.
C4_TerminateOnlyWhenDue ==
    \A k \in 1..Len(last.terms) :
      /\ cfg.Enabled
      /\ ~cfg.DryRun
      /\ last.terms[k].duration >= cfg.After
      /\ \E i \in 1..Len(last.conns) :
           /\ last.conns[i].PID = last.terms[k].pid
           /\ IdleDuration(last.conns[i], last.at) = last.terms[k].duration
           /\ shouldTerminate(last.conns[i], last.terms[k].duration)

\* One cycle terminates a session and spares another that is idle for at
\* least After.
C4_Witness ==
    /\ loop = "polled"
    /\ Len(last.terms) = 1
    /\ \E i \in 1..Len(last.conns) :
         /\ last.conns[i].PID # last.terms[1].pid
         /\ IdleDuration(last.conns[i], last.at) >= cfg.After

\* C8: a cycle sends a termination alert for a PID exactly for its
\* TerminateBackend call that returned (true, nil). After a call that
\* returned an error there is no such alert, the PID is still tracked with
\* the flags the threshold tests alone give it, and a later successful cycle
\* that lists the PID while it is eligible calls TerminateBackend again.
C8_TerminationAlertIffSuccess ==
    [][CycleStep =>
        \A p \in PIDs :
          LET calls == {k \in 1..Len(last'.terms) : last'.terms[k].pid = p}
              sent  == CountAlerts(last'.alerts, "connection_terminated", "info", p)
          IN /\ sent = Cardinality({k \in calls : last'.terms[k].result = "terminated"})
             /\ \A k \in calls :
                  last'.terms[k].result = "error" =>
                    /\ sent = 0
                    /\ p \in DOMAIN tracked'
                    /\ tracked'[p].warningSent =
                         (\/ p \in DOMAIN tracked /\ tracked[p].warningSent
                          \/ last'.terms[k].duration >= cfg.Warning)
                    /\ tracked'[p].criticalSent =
                         (\/ p \in DOMAIN tracked /\ tracked[p].criticalSent
                          \/ last'.terms[k].duration >= cfg.Critical)
             /\ (episode[p].termErr /\ ~last'.err) =>
                  \A i \in 1..Len(last'.conns) :
                    (/\ last'.conns[i].PID = p
                     /\ TerminateDue(last'.conns[i], IdleDuration(last'.conns[i], now')))
                    => calls # {}]_vars

\* TerminateBackend failed for a PID in an earlier cycle; this cycle calls it
\* again, succeeds and sends the termination alert.
C8_Witness ==
    \E p \in PIDs :
      /\ loop = "polled"
      /\ episode[p].termErr
      /\ \E k \in 1..Len(last.terms) :
           last.terms[k].pid = p /\ last.terms[k].result = "terminated"
      /\ CountAlerts(last.alerts, "connection_terminated", "info", p) = 1

\* C12: an entry with criticalSent has warningSent; a critical idle alert
\* for a PID comes after a warning idle alert for it in the same lifetime, in
\* an earlier cycle or earlier in the same cycle.
C12_CriticalAfterWarning ==
    /\ \A p \in DOMAIN tracked : tracked[p].criticalSent => tracked[p].warningSent
    /\ \A p \in PIDs : episode[p].critical >= 1 => episode[p].warning >= 1
    /\ \A i \in 1..Len(last.alerts) :
         (last.alerts[i].kind = "idle_transaction" /\ last.alerts[i].severity = SeverityCritical)
         => \/ \E j \in 1..(i - 1) :
                 /\ last.alerts[j].kind = "idle_transaction"
                 /\ last.alerts[j].severity = SeverityWarning
                 /\ last.alerts[j].pid = last.alerts[i].pid
            \/ CountAlerts(last.alerts, "idle_transaction", SeverityWarning, last.alerts[i].pid)
                 < episode[last.alerts[i].pid].warning

\* A session is first seen already past the critical threshold: the cycle
\* sends its warning and then its critical alert.
C12_Witness ==
    \E p \in DOMAIN tracked :
      /\ loop = "polled"
      /\ tracked[p].firstSeen = last.at
      /\ \E i, j \in 1..Len(last.alerts) :
           /\ i < j
           /\ last.alerts[i] = IdleAlert(SeverityWarning, p, last.alerts[i].duration)
           /\ last.alerts[j] = IdleAlert(SeverityCritical, p, last.alerts[j].duration)

\* C13: while a PID stays in tracked, its warningSent and criticalSent go
\* from false to true only.
C13_FlagsOnlyRise ==
    [][\A p \in (DOMAIN tracked) \cap (DOMAIN tracked') :
          /\ tracked[p].warningSent => tracked'[p].warningSent
          /\ tracked[p].criticalSent => tracked'[p].criticalSent]_vars

\* A PID warned about in an earlier cycle is listed again with a duration
\* under the warning threshold (a new transaction of the same backend): its
\* flag is still set and nothing is sent about it.
C13_Witness ==
    \E p \in DOMAIN tracked :
      /\ loop = "polled" /\ ~last.err
      /\ tracked[p].firstSeen < last.at
      /\ tracked[p].warningSent
      /\ \E i \in 1..Len(last.conns) :
           /\ last.conns[i].PID = p
           /\ IdleDuration(last.conns[i], last.at) < cfg.Warning
      /\ AlertsAbout(last.alerts, p) = {}

\* C14: a cycle without a fetch error leaves tracked with exactly the listed
\* PIDs as keys; the entry of a PID that was not tracked before is first seen
\* now and has the flags this cycle's threshold tests set, no others.
C14_TrackedIsTheList ==
    [][(CycleStep /\ ~last'.err) =>
          /\ DOMAIN tracked' = SeenPIDs(last'.conns)
          /\ \A i \in 1..Len(last'.conns) :
               LET c == last'.conns[i]
                   d == IdleDuration(c, now')
               IN c.PID \notin DOMAIN tracked =>
                    /\ tracked'[c.PID].firstSeen = now'
                    /\ tracked'[c.PID].warningSent = (d >= cfg.Warning)
                    /\ tracked'[c.PID].criticalSent = (d >= cfg.Critical)]_vars

\* One cycle deletes a tracked PID that is no longer listed and creates the
\* entry of one that is listed for the first time.
C14_Witness ==
    /\ loop = "polled" /\ ~last.err
    /\ last.at > 1
    /\ \E p \in PIDs : p \notin DOMAIN tracked /\ AlertsAbout(last.alerts, p) # {}
    /\ \E p \in DOMAIN tracked : tracked[p].firstSeen = last.at


\* The place of a step's phase in the order pool, session thresholds,
\* auto-terminate, reconciliation.
PhaseRank(step) ==
    CASE step.phase = "pool" -> 1
      [] step.phase = "session" -> 2
      [] step.phase = "terminate" -> 3
      [] step.phase = "reconcile" -> 4

StepsOf(phase, pid) ==
    {i \in 1..Len(last.steps) : last.steps[i] = Step(phase, pid)}

----------------------------------------------------------------------------
(* Properties of the pool-alert gate, checked under SpecPool *)

LastSent(a, severity) ==
    IF severity = SeverityWarning THEN a.lastPoolWarning ELSE a.lastPoolCritical
OtherSeverity(severity) ==
    IF severity = SeverityWarning THEN SeverityCritical ELSE SeverityWarning

\* The severity the pool thresholds give a usage percentage.
PoolSeverity(usage) ==
    IF usage >= cfg.CriticalPercent THEN SeverityCritical
    ELSE IF usage >= cfg.WarningPercent THEN SeverityWarning
    ELSE "none"

\* C11: in a cycle whose fetches succeed with the usage at or above the
\* critical percentage (or at or above the warning percentage only), the pool
\* alert of that severity is dispatched when none has gone out before or the
\* latest went out at least the cooldown ago: it recurs every cooldown while
\* the usage stays there.
C11_PoolAlertRecurs ==
    [][(CycleStep /\ ~last'.err) =>
        \A s \in Severities :
          (/\ PoolSeverity(last'.usage) = s
           /\ (gate[s].sentAt = ZeroTime \/ now' - gate[s].sentAt >= cfg.Cooldown))
          => CountAlerts(last'.alerts, "connection_pool", s, 0) = 1]_vars

\* With a cooldown of 2, three cycles in a row check one severity: the alert
\* goes out in the first, is held back in the second and goes out again in
\* the third.
C11_Witness ==
    \E s \in Severities :
      /\ loop = "polled" /\ ~last.err
      /\ cfg.Cooldown = 2
      /\ last.at = 3
      /\ gate[s].checks = 3
      /\ PoolSeverity(last.usage) = s
      /\ CountAlerts(last.alerts, "connection_pool", s, 0) = 1

\* C24: in one cycle at most one pool alert is dispatched and critical
\* dominates warning. With the usage at or above the critical percentage only
\* the critical gate is consulted and the warning timestamp stays; with the
\* usage at or above the warning percentage but under the critical one only
\* the warning gate is consulted and the critical timestamp stays; under the
\* warning percentage no gate is consulted, both timestamps stay and no pool
\* alert is sent.
C24_CriticalDominates ==
    [][(CycleStep /\ last'.usage > 0) =>
        LET s == PoolSeverity(last'.usage)
            poolAlerts == {i \in 1..Len(last'.alerts) :
                             last'.alerts[i].kind = "connection_pool"}
        IN /\ Cardinality(poolAlerts) <= 1
           /\ \A i \in poolAlerts : last'.alerts[i].severity = s
           /\ s = "none" => (last'.checks = <<>> /\ cooldown' = cooldown
                             /\ poolAlerts = {})
           /\ s \in Severities =>
                /\ Len(last'.checks) = 1
                /\ last'.checks[1].severity = s
                /\ LastSent(cooldown', OtherSeverity(s))
                     = LastSent(cooldown, OtherSeverity(s))
                /\ gate'[OtherSeverity(s)] = gate[OtherSeverity(s)] ]_vars

\* A critical cycle right after a warning cycle: the critical alert goes out
\* although the warning gate is within its cooldown, and the warning
\* timestamp is still that of the warning alert.
C24_Witness ==
    /\ loop = "polled" /\ ~last.err
    /\ PoolSeverity(last.usage) = SeverityCritical
    /\ CountAlerts(last.alerts, "connection_pool", SeverityCritical, 0) = 1
    /\ cooldown.lastPoolCritical = now
    /\ cooldown.lastPoolWarning = now - 1

\* C3 (as stated): a cycle in which GetPoolStats or GetIdleTransactions fails
\* leaves tracked and cooldown as they were and dispatches no alert.
C3_FailedFetchChangesNothing ==
    [][(CycleStep /\ last'.err) =>
          /\ tracked' = tracked
          /\ cooldown' = cooldown
          /\ last'.alerts = <<>>]_vars

\* C9: a canSendPoolAlert call returns true exactly when now minus the
\* severity's own timestamp is at least the cooldown, and so on the first
\* call for the severity; returning true it sets that timestamp to now and
\* leaves the other severity's; returning false it changes neither. Without
\* a call the timestamps stay.
C9_GatePerSeverity ==
    [][CycleStep =>
        /\ \A k \in 1..Len(last'.checks) :
             LET c == last'.checks[k] IN
             /\ c.ok = (Sub(now', LastSent(cooldown, c.severity)) >= cfg.Cooldown)
             /\ gate[c.severity].checks = 0 => c.ok
             /\ c.ok => /\ LastSent(cooldown', c.severity) = now'
                        /\ LastSent(cooldown', OtherSeverity(c.severity))
                             = LastSent(cooldown, OtherSeverity(c.severity))
             /\ ~c.ok => cooldown' = cooldown
        /\ last'.checks = <<>> => cooldown' = cooldown]_vars

\* A check of one severity returns true while the other severity's alert
\* went out less than a cooldown ago.
C9_Witness ==
    \E k \in 1..Len(last.checks) :
      LET c == last.checks[k]
          o == gate[OtherSeverity(c.severity)]
      IN /\ loop = "polled"
         /\ c.ok
         /\ o.sentAt # ZeroTime
         /\ o.sentAt < last.at
         /\ last.at - o.sentAt < cfg.Cooldown

\* C10 (as stated): of two successive checks of one severity, made less than
\* the cooldown apart the results are (true, false), made at least the
\* cooldown apart they are (true, true).
C10_PairsOfChecks ==
    [][CycleStep =>
        \A k \in 1..Len(last'.checks) :
          LET c == last'.checks[k]
              g == gate[c.severity]
          IN g.checks > 0 =>
               /\ g.checkedOk
               /\ c.ok = (now' - g.checkedAt >= cfg.Cooldown)]_vars

\* C10 (amended): a check returns false when the latest pool alert of its
\* severity went out less than the cooldown before it, and true when that
\* was at least the cooldown before or there has been none; the alert is
\* dispatched exactly when the check returns true. So two pool alerts of one
\* severity are never less than the cooldown apart, whatever the usage did
\* in between.
C10_CooldownSinceLastAlert ==
    [][CycleStep =>
        /\ \A k \in 1..Len(last'.checks) :
             LET c == last'.checks[k]
                 g == gate[c.severity]
             IN /\ c.ok = (g.sentAt = ZeroTime \/ now' - g.sentAt >= cfg.Cooldown)
                /\ CountAlerts(last'.alerts, "connection_pool", c.severity, 0)
                     = IF c.ok THEN 1 ELSE 0
        /\ \A s \in Severities :
             (\A k \in 1..Len(last'.checks) : last'.checks[k].severity # s)
             => CountAlerts(last'.alerts, "connection_pool", s, 0) = 0]_vars

\* With a cooldown of 3: an alert of a severity goes out, the next cycle is
\* below its threshold, and the cycle after crosses it again and is refused.
C10_Witness ==
    \E s \in Severities :
      /\ loop = "polled"
      /\ cfg.Cooldown = 3
      /\ gate[s].sentAt = last.at - 2
      /\ gate[s].checks = 2
      /\ last.checks = <<[severity |-> s, ok |-> FALSE]>>

\* C26: the resolved alert for a PID carries the time from the cycle that
\* first observed it to the cycle that removes it, not the session's idle
\* duration. An entry's firstSeen is the clock of the cycle that creates it,
\* however long the session had been idle by then, and stays while the entry
\* is tracked; an idle alert carries the session's idle duration; a resolved
\* alert carries the removing cycle's clock minus firstSeen, after which the
\* PID is no longer tracked.
C26_ResolvedCarriesTrackedTime ==
    [][CycleStep =>
        \A p \in PIDs :
          /\ (p \notin DOMAIN tracked /\ p \in DOMAIN tracked')
               => tracked'[p].firstSeen = now'
          /\ (p \in DOMAIN tracked /\ p \in DOMAIN tracked')
               => tracked'[p].firstSeen = tracked[p].firstSeen
          /\ \A i \in 1..Len(last'.alerts) :
               LET alert == last'.alerts[i] IN
               /\ (alert.kind = "idle_transaction_resolved" /\ alert.pid = p)
                    => /\ p \in DOMAIN tracked
                       /\ alert.duration = now' - tracked[p].firstSeen
                       /\ p \notin DOMAIN tracked'
               /\ (alert.kind = "idle_transaction" /\ alert.pid = p)
                    => \E j \in 1..Len(last'.conns) :
                         /\ last'.conns[j].PID = p
                         /\ alert.duration = IdleDuration(last'.conns[j], now') ]_vars

\* The scenario with warning = 1 and critical = 2 polling intervals: PID 1002
\* was first listed by the cycle at 1, listed again at 2 and is absent at 3;
\* the cycle at 3 sends one event, the resolved alert with a total duration
\* of 2, and the PID is no longer tracked.
C26_Witness ==
    /\ loop = "polled" /\ ~last.err
    /\ cfg.Warning = 1 /\ cfg.Critical = 2
    /\ last.at = 3
    /\ last.alerts = <<ResolvedAlert(1002, "pg_dump", 2)>>
    /\ 1002 \notin DOMAIN tracked

\* C30: a failed fetch never looks like a resolution. A cycle in which
\* GetPoolStats or GetIdleTransactions fails deletes no tracked entry, changes
\* no flag, makes no Terminate call and sends no event about any session;
\* nothing but a cycle touches the table; and a successful cycle evaluates a
\* PID that is still listed with the flags the table holds for it, so no
\* warning or critical alert whose flag is set is sent again.
C30_FailedFetchIsNoResolution ==
    [][ /\ (CycleStep /\ last'.err) =>
             /\ tracked' = tracked
             /\ episode' = episode
             /\ last'.terms = <<>>
             /\ \A p \in PIDs : AlertsAbout(last'.alerts, p) = {}
        /\ ~CycleStep => tracked' = tracked
        /\ (CycleStep /\ ~last'.err) =>
             \A p \in DOMAIN tracked :
               Listed(last', p) =>
                 /\ p \in DOMAIN tracked'
                 /\ tracked[p].warningSent =>
                      /\ tracked'[p].warningSent
                      /\ CountAlerts(last'.alerts, "idle_transaction", SeverityWarning, p) = 0
                 /\ tracked[p].criticalSent =>
                      /\ tracked'[p].criticalSent
                      /\ CountAlerts(last'.alerts, "idle_transaction", SeverityCritical, p) = 0
      ]_vars

\* GetIdleTransactions has failed in a cycle after the pool check, with a
\* session in the table whose warning has been sent: the entry is still
\* there with its flag and the cycle has sent nothing.
C30_Witness ==
    /\ loop = "polled" /\ last.err
    /\ last.steps = <<Step("pool", 0)>>
    /\ last.alerts = <<>>
    /\ \E p \in DOMAIN tracked :
         /\ tracked[p].warningSent
         /\ episode[p].warning = 1

\* C32: the flags are keyed by PID, not by idle episode. A listed PID that
\* has an entry keeps it, first observation and set flags included, and gets
\* no alert of a severity whose flag is set, also when its state change is
\* later than the entry's first observation (it left idle-in-transaction and
\* came back between polls); an idle alert goes only to a PID that had no
\* entry or whose flag of that severity was not set, and an entry goes away
\* only in a successful cycle that does not list its PID.
C32_FlagsKeyedByPID ==
    [][CycleStep =>
        /\ \A i \in 1..Len(last'.conns) :
             LET conn == last'.conns[i]
                 p == conn.PID
             IN (p \in DOMAIN tracked /\ conn.StateChange > tracked[p].firstSeen) =>
                  /\ p \in DOMAIN tracked'
                  /\ tracked'[p].firstSeen = tracked[p].firstSeen
                  /\ tracked[p].warningSent =>
                       /\ tracked'[p].warningSent
                       /\ CountAlerts(last'.alerts, "idle_transaction", SeverityWarning, p) = 0
                  /\ tracked[p].criticalSent =>
                       /\ tracked'[p].criticalSent
                       /\ CountAlerts(last'.alerts, "idle_transaction", SeverityCritical, p) = 0
        /\ \A i \in 1..Len(last'.alerts) :
             LET alert == last'.alerts[i] IN
             (alert.kind = "idle_transaction" /\ alert.pid \in DOMAIN tracked) =>
                /\ alert.severity = SeverityWarning => ~tracked[alert.pid].warningSent
                /\ alert.severity = SeverityCritical => ~tracked[alert.pid].criticalSent
        /\ \A p \in DOMAIN tracked :
             p \notin DOMAIN tracked' => (~last'.err /\ ~Listed(last', p))
      ]_vars

\* A session whose warning went out is listed again past the warning
\* threshold with a state change later than its first observation: the
\* cycle sends nothing about it.
C32_Witness ==
    /\ loop = "polled" /\ ~last.err
    /\ \E i \in 1..Len(last.conns) :
         LET conn == last.conns[i] IN
         /\ conn.PID \in DOMAIN tracked
         /\ conn.StateChange > tracked[conn.PID].firstSeen
         /\ IdleDuration(conn, last.at) >= cfg.Warning
         /\ tracked[conn.PID].warningSent
         /\ episode[conn.PID].warning = 1
         /\ AlertsAbout(last.alerts, conn.PID) = {}

\* C33: a successful auto-termination does not remove the entry. The cycle
\* that terminates a PID keeps it in the table and sends its termination
\* alert and no resolved alert; a PID terminated since it was last absent is
\* in the table; and the first successful cycle that does not list it
\* removes it, with a resolved alert if a flag is set, while every other
\* cycle keeps it and sends no resolved alert.
C33_TerminatedStaysTracked ==
    [][ /\ \A p \in PIDs : episode'[p].terminated => p \in DOMAIN tracked'
        /\ CycleStep =>
             /\ \A k \in 1..Len(last'.terms) :
                  LET p == last'.terms[k].pid IN
                  last'.terms[k].result = "terminated" =>
                    /\ p \in DOMAIN tracked'
                    /\ CountAlerts(last'.alerts, "connection_terminated", "info", p) = 1
                    /\ CountAlerts(last'.alerts, "idle_transaction_resolved", "resolved", p) = 0
             /\ \A p \in PIDs :
                  LET resolved == CountAlerts(last'.alerts, "idle_transaction_resolved",
                                              "resolved", p)
                  IN episode[p].terminated =>
                       IF ~last'.err /\ ~Listed(last', p)
                       THEN /\ p \notin DOMAIN tracked'
                            /\ (tracked[p].warningSent \/ tracked[p].criticalSent)
                                 => resolved = 1
                       ELSE /\ p \in DOMAIN tracked'
                            /\ resolved = 0
      ]_vars

\* A cycle has terminated a session whose warning and critical alerts it
\* sent: the termination alert follows them and the entry is in the table.
C33_Witness ==
    /\ loop = "polled" /\ ~last.err
    /\ \E k \in 1..Len(last.terms) :
         LET p == last.terms[k].pid IN
         /\ last.terms[k].result = "terminated"
         /\ p \in DOMAIN tracked
         /\ tracked[p].warningSent /\ tracked[p].criticalSent
         /\ episode[p].terminated
         /\ CountAlerts(last.alerts, "connection_terminated", "info", p) = 1

----------------------------------------------------------------------------
(* Properties of the entries' fields, checked under SpecLabel *)

ListedAs(cycle, p) == cycle.conns[CHOOSE i \in 1..Len(cycle.conns) : cycle.conns[i].PID = p]

\* C34: processing a session that has an entry changes nothing in the entry
\* but, possibly, warningSent and criticalSent from false to true: pid,
\* appName, query and firstSeen are those of the first observation (the
\* label, the truncated query and the time of the cycle that made the
\* entry), whatever label and query the session is listed with later; the
\* resolved alert carries the entry's appName and the time since firstSeen.
C34_EntryKeepsFirstObservation ==
    [][CycleStep =>
        /\ \A p \in DOMAIN tracked' :
             IF p \in DOMAIN tracked
             THEN /\ tracked'[p].pid = tracked[p].pid
                  /\ tracked'[p].appName = tracked[p].appName
                  /\ tracked'[p].query = tracked[p].query
                  /\ tracked'[p].firstSeen = tracked[p].firstSeen
                  /\ tracked[p].warningSent => tracked'[p].warningSent
                  /\ tracked[p].criticalSent => tracked'[p].criticalSent
             ELSE /\ Listed(last', p)
                  /\ tracked'[p].pid = p
                  /\ tracked'[p].appName = ListedAs(last', p).ApplicationName
                  /\ tracked'[p].query = TruncateQuery(ListedAs(last', p).Query, QueryLimit)
                  /\ tracked'[p].firstSeen = now'
        /\ \A i \in 1..Len(last'.alerts) :
             LET alert == last'.alerts[i] IN
             alert.kind = "idle_transaction_resolved" =>
               /\ alert.pid \in DOMAIN tracked
               /\ alert.app = tracked[alert.pid].appName
               /\ alert.duration = now' - tracked[alert.pid].firstSeen
      ]_vars

\* A session whose entry was made in an earlier cycle is listed under
\* another label and with another query: the entry has the first ones, and
\* its flags.
C34_Witness ==
    /\ loop = "polled" /\ ~last.err
    /\ \E p \in DOMAIN tracked :
         /\ Listed(last, p)
         /\ tracked[p].firstSeen < last.at
         /\ tracked[p].appName # ListedAs(last, p).ApplicationName
         /\ tracked[p].query # TruncateQuery(ListedAs(last, p).Query, QueryLimit)
         /\ tracked[p].warningSent /\ tracked[p].criticalSent

----------------------------------------------------------------------------
(* The watch command against the daemon, checked under SpecWatch *)

LogCount(log, level, pid) ==
    Cardinality({i \in 1..Len(log) : log[i] = LogEvent(level, pid)})

\* C36: given the same snapshots, after each cycle the watch command's table
\* and the daemon's hold the same PIDs with the same warningSent and
\* criticalSent (and firstSeen), both fail or both succeed, and pollOnce has
\* logged for each PID as many WARN lines as the daemon has sent warning
\* alerts and as many CRIT lines as it has sent critical alerts: one WARN,
\* not two, for a session first seen past the warning threshold.
C36_WatchMatchesDaemon ==
    [][CycleStep =>
        /\ got'.err = last'.err
        /\ DOMAIN got'.tracked = DOMAIN tracked'
        /\ \A p \in DOMAIN tracked' :
             /\ got'.tracked[p].warningSent = tracked'[p].warningSent
             /\ got'.tracked[p].criticalSent = tracked'[p].criticalSent
             /\ got'.tracked[p].firstSeen = tracked'[p].firstSeen
        /\ \A p \in PIDs :
             /\ LogCount(got'.log, "WARN", p)
                  = CountAlerts(last'.alerts, "idle_transaction", SeverityWarning, p)
             /\ LogCount(got'.log, "CRIT", p)
                  = CountAlerts(last'.alerts, "idle_transaction", SeverityCritical, p)
             /\ LogCount(got'.log, "WARN", p) <= 1
             /\ LogCount(got'.log, "CRIT", p) <= 1
      ]_vars

\* A session is seen for the first time, past both thresholds: pollOnce has
\* logged one WARN, the query line and one CRIT for it, and the daemon has
\* sent one warning and one critical alert.
C36_Witness ==
    /\ loop = "polled" /\ ~last.err
    /\ got.called /\ got.fn = "pollOnce"
    /\ \E p \in DOMAIN tracked :
         /\ tracked[p].firstSeen = last.at
         /\ got.tracked[p].warningSent /\ got.tracked[p].criticalSent
         /\ LogCount(got.log, "WARN", p) = 1
         /\ LogCount(got.log, "    ", p) = 1
         /\ LogCount(got.log, "CRIT", p) = 1
         /\ episode[p].warning = 1 /\ episode[p].critical = 1

----------------------------------------------------------------------------
(* Properties of pool and session alerts together, checked under SpecGate *)

\* C23: per-session processing never touches the cooldown gate. In every
\* cycle the gate is consulted for the pool alone (at most one check) and a
\* cooldown timestamp changes only with a pool alert of
\* its severity in that cycle; every listed session that reaches a threshold
\* with its flag unset gets its alert, and every successful TerminateBackend
\* its termination alert, whatever the cooldown state: N sessions crossing a
\* threshold in one cycle produce N alerts even right after a pool alert.
C23_SessionsBypassTheGate ==
    [][ CycleStep =>
        /\ Len(last'.checks) <= 1
        /\ cooldown'.lastPoolWarning # cooldown.lastPoolWarning
             => CountAlerts(last'.alerts, "connection_pool", SeverityWarning, 0) = 1
        /\ cooldown'.lastPoolCritical # cooldown.lastPoolCritical
             => CountAlerts(last'.alerts, "connection_pool", SeverityCritical, 0) = 1
        /\ \A i \in 1..Len(last'.conns) :
             LET conn == last'.conns[i]
                 duration == IdleDuration(conn, now')
                 fresh == conn.PID \notin DOMAIN tracked
             IN /\ (duration >= cfg.Warning
                      /\ (fresh \/ ~tracked[conn.PID].warningSent))
                    => CountAlerts(last'.alerts, "idle_transaction",
                                   SeverityWarning, conn.PID) = 1
                /\ (duration >= cfg.Critical
                      /\ (fresh \/ ~tracked[conn.PID].criticalSent))
                    => CountAlerts(last'.alerts, "idle_transaction",
                                   SeverityCritical, conn.PID) = 1
        /\ \A k \in 1..Len(last'.terms) :
             last'.terms[k].result = "terminated"
               => \E j \in 1..Len(last'.alerts) :
                    /\ last'.alerts[j].kind = "connection_terminated"
                    /\ last'.alerts[j].pid = last'.terms[k].pid ]_vars

\* A cycle in which the pool gate refused the pool alert (the previous one is
\* within the cooldown) and two sessions each got their warning alert.
C23_Witness ==
    /\ loop = "polled"
    /\ Len(last.checks) = 1
    /\ ~last.checks[1].ok
    /\ \A pid \in {1001, 1002} :
         CountAlerts(last.alerts, "idle_transaction", SeverityWarning, pid) = 1

----------------------------------------------------------------------------
(* Properties of the alert helpers, checked under SpecDispatch *)

AttemptsOn(i, channel) ==
    {k \in 1..Len(last.attempts) :
        last.attempts[k].event = i /\ last.attempts[k].channel = channel}

\* C19: each alert event of a cycle is sent exactly once on every channel
\* that is set up, whether or not the sends before it (on the other channel
\* or for earlier events) failed, in the order of the events; no send is
\* repeated.
C19_EveryChannelEveryEvent ==
    /\ \A i \in 1..Len(last.alerts) :
         \A c \in cfg.Channels : Cardinality(AttemptsOn(i, c)) = 1
    /\ Len(last.attempts) = Len(last.alerts) * Cardinality(cfg.Channels)
    /\ \A j, k \in 1..Len(last.attempts) :
         j < k => last.attempts[j].event <= last.attempts[k].event

\* The Slack send of a cycle's first event fails: its webhook send is made
\* all the same, and so are both sends of the cycle's next event.
C19_Witness ==
    /\ loop = "polled" /\ ~last.err
    /\ Len(last.alerts) >= 2
    /\ Len(last.attempts) >= 4
    /\ last.attempts[1] = Attempt(1, "slack", FALSE)
    /\ last.attempts[2].event = 1 /\ last.attempts[2].channel = "webhook"
    /\ last.attempts[3].event = 2 /\ last.attempts[3].channel = "slack"
    /\ last.attempts[4].event = 2 /\ last.attempts[4].channel = "webhook"

\* C31: alert bookkeeping is independent of delivery. Whatever the channel
\* calls of a cycle return, and with no channel set up at all, an idle alert
\* of the cycle leaves its flag set and a pool alert leaves its timestamp at
\* the cycle's time; a listed PID whose flag is set gets no alert of that
\* severity again; and a flagged PID that is removed gets its resolved alert.
C31_BookkeepingWithoutDelivery ==
    [][CycleStep =>
        /\ \A i \in 1..Len(last'.alerts) :
             LET alert == last'.alerts[i] IN
             /\ alert.kind = "idle_transaction" =>
                  /\ alert.pid \in DOMAIN tracked'
                  /\ alert.severity = SeverityWarning => tracked'[alert.pid].warningSent
                  /\ alert.severity = SeverityCritical => tracked'[alert.pid].criticalSent
             /\ alert.kind = "connection_pool" =>
                  LastSent(cooldown', alert.severity) = now'
        /\ ~last'.err =>
             \A p \in DOMAIN tracked :
               IF Listed(last', p)
               THEN /\ tracked[p].warningSent =>
                         CountAlerts(last'.alerts, "idle_transaction", SeverityWarning, p) = 0
                    /\ tracked[p].criticalSent =>
                         CountAlerts(last'.alerts, "idle_transaction", SeverityCritical, p) = 0
               ELSE (tracked[p].warningSent \/ tracked[p].criticalSent) =>
                      CountAlerts(last'.alerts, "idle_transaction_resolved", "resolved", p) = 1
      ]_vars

\* Every channel call for a session's warning alert has failed, on both
\* channels: the entry has its warning flag all the same.
C31_Witness ==
    /\ loop = "polled" /\ ~last.err
    /\ cfg.Channels = {"slack", "webhook"}
    /\ \A k \in 1..Len(last.attempts) : ~last.attempts[k].ok
    /\ \E i \in 1..Len(last.alerts) :
         /\ last.alerts[i].kind = "idle_transaction"
         /\ last.alerts[i].severity = SeverityWarning
         /\ tracked[last.alerts[i].pid].warningSent

----------------------------------------------------------------------------
(* Properties of the driver, checked under SpecDriver and SpecShutdown *)

\* C15: cycles are strictly serialized. In every interleaving of ticker
\* firings, cycles, signals and the signal goroutine, pollAndAlert is never
\* running twice at once (it runs exactly while monitorLoop is inside the
\* call), and a cycle starts only when no cycle is running and the previous
\* one has returned with all it had to do.
C15_CyclesSerialized ==
    [][ /\ rt'.running <= 1
        /\ rt'.running = 1 <=> loop' = "polled"
        /\ rt'.taken # rt.taken =>
             /\ rt.running = 0
             /\ loop = "select"
             /\ last = NoCycle ]_vars

\* A second cycle is running, the ticker has fired again and a signal is
\* waiting in sigCh.
C15_Witness ==
    /\ rt.taken >= 2
    /\ rt.running = 1
    /\ rt.tickC = 1
    /\ rt.sigCh = 1

\* C16 as stated: no tick is skipped. Every tick the ticker has fired has
\* either started its own poll cycle or is still waiting to start it.
C16_NoTickSkipped ==
    rt.fired = rt.taken + rt.tickC

\* C18: no recoverable error stops the driver. When pollAndAlert returns,
\* whatever went wrong in the cycle (a failed fetch, a failed channel send, a
\* failed Terminate call), monitorLoop is back at its select, where the next
\* tick starts another cycle; it has returned only with the context cancelled.
C18_ErrorsDoNotStopTheDriver ==
    [][ /\ loop' = "returned" => ctxDone'
        /\ (loop = "polled" /\ loop' # "polled") => loop' = "select"
        /\ (rt'.taken # rt.taken /\ rt.faults > 0) => loop = "select" ]_vars

\* Two cycles met a recoverable error and, with the context still live, a
\* third one is running.
C18_Witness ==
    /\ rt.faults = 2
    /\ rt.taken = 3
    /\ loop = "polled"
    /\ ~ctxDone

\* C35: a cycle that the select starts with the context already cancelled
\* has no effect: its first fetch fails, it sends no event, makes no channel
\* call and no Terminate call, checks no gate and leaves the tracked table
\* and the cooldown timestamps as they were.
C35_LateCycleHasNoEffect ==
    [][(loop = "select" /\ loop' = "polled" /\ ctxDone) =>
         /\ last'.err
         /\ last'.steps = <<>>
         /\ last'.alerts = <<>>
         /\ last'.attempts = <<>>
         /\ last'.terms = <<>>
         /\ last'.checks = <<>>
         /\ tracked' = tracked
         /\ cooldown' = cooldown]_vars

\* The select has taken a tick with the context cancelled, while the table
\* holds a session past both thresholds that the cycle would have
\* terminated: the cycle has failed and the entry is as it was.
C35_Witness ==
    /\ loop = "polled"
    /\ ctxDone
    /\ rt.late = 1
    /\ last.err /\ last.alerts = <<>>
    /\ \E p \in DOMAIN tracked : tracked[p].warningSent /\ tracked[p].criticalSent

\* C20: after a shutdown signal is delivered the daemon eventually stops: the
\* context is cancelled, no cycle is running any more and monitorLoop has
\* returned, given that the signal goroutine and a running cycle get to run
\* and that the select does not pass the cancellation over for ever.
C20_SignalStopsTheDaemon ==
    (rt.sigCh = 1) ~> (ctxDone /\ rt.running = 0 /\ loop = "returned")

\* monitorLoop has returned after a cycle, on a select that had a tick ready
\* as well as the cancellation.
C20_Witness ==
    /\ loop = "returned"
    /\ ctxDone
    /\ rt.taken >= 1
    /\ rt.tickC = 1

----------------------------------------------------------------------------
(* Properties of a cycle's remote calls, checked under SpecCancel *)

\* C21 as stated: a shutdown signal that arrives while a cycle is inside a
\* remote call cancels that call. Whatever the call, a snapshot fetch or an
\* outbound alert dispatch, once the daemon context is cancelled the call in
\* flight ends aborted, never by its own completion or timeout.
C21_CancellationAbortsTheCall ==
    [][ (InFlight /\ ctxDone /\ rt'.call.state # "inflight")
          => rt'.call.state = "aborted" ]_vars

----------------------------------------------------------------------------
(* Properties of the daemon's tasks, checked under SpecServe *)

\* C22: the tracked table and the cooldown state are written only by the
\* monitor loop. In every interleaving of poll cycles, the signal goroutine
\* and the /health and /status handlers, a step that changes tracked or
\* cooldown is monitorLoop's call of pollAndAlert; a signal, a cancellation or
\* a served request leaves both as they were.
C22_OnlyTheLoopWrites ==
    [][ (tracked' # tracked \/ cooldown' # cooldown)
          => (loop = "select" /\ loop' = "polled" /\ last'.at = now'
              /\ got' = got /\ ctxDone' = ctxDone /\ rt' = rt) ]_vars

\* A /status request has been served while a cycle was running that had
\* tracked a session and stamped the warning gate, and a signal is waiting.
C22_Witness ==
    /\ loop = "polled"
    /\ got.called /\ got.path = "/status" /\ got.code = StatusOK /\ got.count = 1
    /\ DOMAIN tracked # {}
    /\ cooldown.lastPoolWarning = now
    /\ rt.sigCh = 1

----------------------------------------------------------------------------
(* Properties of the daemon's start, checked under SpecStartup *)

\* C27: the daemon never runs a poll cycle with an invalid threshold pair.
\* With idle warning >= idle critical, pool warning percent >= pool critical
\* percent or no database connection configured, runDaemon returns the
\* configuration error without connecting and never enters monitorLoop: in
\* and after every poll cycle both pairs are in order.
C27_NoCycleWithInvalidThresholds ==
    LET invalid == \/ cfg.Warning >= cfg.Critical
                   \/ cfg.WarningPercent >= cfg.CriticalPercent
                   \/ ~cfg.HasConnection
    IN /\ invalid => /\ loop \in {"start", "returned"}
                     /\ last = NoCycle /\ DOMAIN tracked = {}
                     /\ got.called => (got.err = "invalid configuration"
                                       /\ ~got.connected)
       /\ loop \in {"select", "polled"} => (~invalid /\ got.connected)

\* runDaemon has returned the configuration error for a configuration whose
\* only fault is the pool pair.
C27_Witness ==
    /\ loop = "returned"
    /\ got.called /\ got.err = "invalid configuration"
    /\ cfg.HasConnection /\ cfg.Warning < cfg.Critical
    /\ cfg.WarningPercent >= cfg.CriticalPercent

----------------------------------------------------------------------------
(* Properties of PoolStats.UsagePercent, checked under SpecNumeric *)

\* C29 as stated: UsagePercent is 100 whenever max - reserved <= 0; with a
\* positive denominator it is 100 for total = max - reserved and 0 for
\* total = 0, and the threshold comparison usage >= P is equivalent to
\* total * 100 >= P * (max - reserved), for every percentage P.
C29_UsagePercentIsExact ==
    (got.called /\ got.fn = "UsagePercent") =>
        LET available == got.stats.MaxConnections - got.stats.ReservedSuperuser
            total == got.stats.TotalConnections
        IN /\ available <= 0 => (got.whole /\ got.floor = 100)
           /\ (available > 0 /\ total = available) => (got.whole /\ got.floor = 100)
           /\ (available > 0 /\ total = 0) => (got.whole /\ got.floor = 0)
           /\ available > 0 =>
                (got.atLeast <=> total * 100 >= got.percent * available)

\* The daemon's snapshots (4 available connections) are computed exactly:
\* UsagePercent above is their float64 result.
UsagePercentExactOnSnapshots ==
    (got.called /\ got.fn = "UsagePercent"
       /\ got.stats.MaxConnections - got.stats.ReservedSuperuser = 4) =>
        (got.whole /\ got.floor = UsagePercent(got.stats))

----------------------------------------------------------------------------
(* Properties of the channel clients' send, checked under SpecSend *)

SendFailureExpected ==
    \/ got.url = ""
    \/ ~got.reachable
    \/ got.status < 200 \/ got.status > 299

\* C37 as stated: on the webhook channel and on the Slack channel a send
\* returns an error exactly when the URL is empty (and then no request is
\* made), the endpoint is unreachable, or the response status is outside
\* 200-299.
C37_SendFailsOutside2xx ==
    (got.called /\ got.fn = "send") =>
        /\ (got.err # "nil") <=> SendFailureExpected
        /\ got.url = "" => got.requests = 0

\* The statement holds of the webhook channel.
WebhookSendFailsOutside2xx ==
    (got.called /\ got.fn = "send" /\ got.channel = "webhook") =>
        /\ (got.err # "nil") <=> SendFailureExpected
        /\ got.url = "" => got.requests = 0

----------------------------------------------------------------------------
(* Properties of the kill command, checked under SpecKill *)

\* The answers that are y or yes once trimmed and lower-cased: the word in
\* either case of each letter, between any white space, before the first
\* newline.
YesWords ==
    {<<c>> : c \in {"y", "Y"}}
    \cup {<<c, d, e>> : c \in {"y", "Y"}, d \in {"e", "E"}, e \in {"s", "S"}}
AnswersYes(input) ==
    \E n \in 1..Len(input) :
      /\ input[n] = "\n"
      /\ \A i \in 1..(n - 1) : input[i] # "\n"
      /\ \E word \in YesWords, a \in 0..(n - 1) :
           /\ a + Len(word) <= n - 1
           /\ \A i \in 1..a : input[i] \in {" ", "\t", "\r"}
           /\ SubSeq(input, a + 1, a + Len(word)) = word
           /\ \A i \in (a + Len(word) + 1)..(n - 1) : input[i] \in {" ", "\t", "\r"}

KillTarget == Atoi(got.arg).n
KillTargetListed ==
    /\ ~got.connsRes.err
    /\ \E i \in 1..Len(got.connsRes.conns) : got.connsRes.conns[i].PID = KillTarget

\* C38: the kill command makes a backend call only when the PID is in the
\* connection list and --force is set or the answer is y or yes once
\* trimmed and lower-cased; with the PID not found, the input unreadable or
\* any other answer it calls neither TerminateBackend nor CancelBackend. It
\* makes one call at most, for that PID: CancelBackend with --cancel,
\* TerminateBackend without.
C38_KillOnlyWhenConfirmed ==
    (got.called /\ got.fn = "runKill") =>
        /\ got.calls # <<>> =>
             /\ KillTargetListed
             /\ got.force \/ AnswersYes(got.input)
        /\ (~Atoi(got.arg).err /\ got.connected /\ KillTargetListed
              /\ (got.force \/ AnswersYes(got.input)))
             => got.calls # <<>>
        /\ Len(got.calls) <= 1
        /\ \A k \in 1..Len(got.calls) :
             /\ got.calls[k].pid = KillTarget
             /\ got.calls[k].name
                  = IF got.cancelOnly THEN "CancelBackend" ELSE "TerminateBackend"

\* Without --force and with --cancel, the answer " YeS " in front of the
\* newline: CancelBackend has been called for the PID, which is in the list.
C38_Witness ==
    /\ got.called /\ got.fn = "runKill"
    /\ ~got.force /\ got.cancelOnly
    /\ got.input = <<" ", "Y", "e", "S", " ", "\r", "\n">>
    /\ got.calls = <<BackendCall("CancelBackend", 1002)>>

----------------------------------------------------------------------------
(* Properties of the status command, checked under SpecStatus *)

\* C25: for every duration d and thresholds w < c the classification is
\* critical iff d >= c, warning iff w <= d < c and none iff d < w, a duration
\* equal to a threshold having crossed it. getSeverity's label and the JSON
\* severity are that class, and the daemon's tests on an entry whose flags are
\* unset agree with it: the critical test passes iff the class is critical,
\* the warning test iff it is warning or critical.
C25_SeverityClassification ==
    (got.called /\ got.fn = "getSeverity") =>
        LET d == got.duration
            w == cfg.Warning
            c == cfg.Critical
        IN /\ w < c
           /\ got.label = "[CRIT]" <=> d >= c
           /\ got.label = "[WARN]" <=> (w <= d /\ d < c)
           /\ got.label = "" <=> d < w
           /\ got.json = "critical" <=> d >= c
           /\ got.json = "warning" <=> (w <= d /\ d < c)
           /\ got.json = "" <=> d < w
           /\ got.critical <=> d >= c
           /\ got.warning <=> d >= w

\* A duration equal to the critical threshold is classified critical.
C25_Witness ==
    /\ got.called /\ got.fn = "getSeverity"
    /\ got.duration = cfg.Critical
    /\ got.label = "[CRIT]" /\ got.json = "critical" /\ got.critical

\* The level of the pool and a collection of idle durations: the highest
\* threshold any of them has reached.
StatusLevel(usage, durations) ==
    IF \/ usage >= cfg.CriticalPercent
       \/ \E i \in 1..Len(durations) : durations[i] >= cfg.Critical
    THEN ExitCritical
    ELSE IF \/ usage >= cfg.WarningPercent
            \/ \E i \in 1..Len(durations) : durations[i] >= cfg.Warning
         THEN ExitWarning
         ELSE ExitOK

\* C28: the exit code and the status string of the status command are the
\* maximum severity over the pool and all idle sessions: 2/"critical" iff the
\* pool usage is at or above the critical percentage or some session's
\* duration is at or above the idle critical threshold, otherwise 1/"warning"
\* iff the usage or some duration is at or above its warning threshold,
\* otherwise 0/"ok". The level is that of the collection of sessions, whatever
\* their order, and the string always names the level of the code.
C28_ExitCodeIsMaxSeverity ==
    (got.called /\ got.fn = "runStatus") =>
        /\ got.exitCode = StatusLevel(got.usage, got.durations)
        /\ got.status = CASE got.exitCode = ExitCritical -> "critical"
                          [] got.exitCode = ExitWarning -> "warning"
                          [] got.exitCode = ExitOK -> "ok"

\* A critical pool with a session at the warning level only: critical, 2. And
\* the same for a warning session listed after a critical one.
C28_Witness ==
    /\ got.called /\ got.fn = "runStatus"
    /\ got.usage >= cfg.CriticalPercent
    /\ Len(got.durations) = 2
    /\ got.durations[1] >= cfg.Warning /\ got.durations[1] < cfg.Critical
    /\ got.durations[2] < cfg.Warning
    /\ got.exitCode = ExitCritical /\ got.status = "critical"

----------------------------------------------------------------------------
(* Properties of shouldTerminate, checked under SpecPolicy *)

Excluded(conn) ==
    \/ InList(conn.ApplicationName, cfg.ExcludeApps)
    \/ InList(conn.ClientAddr, cfg.ExcludeIPs)

\* The ProtectedApps entries naming the session's application.
Matching(conn) ==
    {i \in 1..Len(cfg.ProtectedApps) : cfg.ProtectedApps[i].Name = conn.ApplicationName}
FirstMatching(conn) ==
    cfg.ProtectedApps[CHOOSE i \in Matching(conn) : \A j \in Matching(conn) : i <= j]

\* C5: shouldTerminate is false for a session whose application is in
\* ExcludeApps or whose client address is in ExcludeIPs, at every duration
\* and whatever the protected entries say.
C5_ExclusionWins ==
    (got.called /\ Excluded(got.conn)) => ~got.result

\* A session excluded by its address alone, past the threshold of the
\* protected entry that names its application, is refused.
C5_Witness ==
    /\ got.called
    /\ ~InList(got.conn.ApplicationName, cfg.ExcludeApps)
    /\ InList(got.conn.ClientAddr, cfg.ExcludeIPs)
    /\ Matching(got.conn) # {}
    /\ ~FirstMatching(got.conn).RequireConfirmation
    /\ got.duration >= FirstMatching(got.conn).MinIdleDuration
    /\ ~got.result

\* C6 (as stated): shouldTerminate is false at every duration for a session
\* that is not excluded and whose application is named by some protected
\* entry with RequireConfirmation set.
C6_AnyConfirmationEntry ==
    (/\ got.called
     /\ ~Excluded(got.conn)
     /\ \E i \in Matching(got.conn) : cfg.ProtectedApps[i].RequireConfirmation)
    => ~got.result

\* C6 (amended): shouldTerminate is false at every duration for a session
\* that is not excluded and for which the first protected entry naming its
\* application has RequireConfirmation set.
C6_FirstEntryNeedsConfirmation ==
    (/\ got.called
     /\ ~Excluded(got.conn)
     /\ Matching(got.conn) # {}
     /\ FirstMatching(got.conn).RequireConfirmation)
    => ~got.result

\* Such a session is refused at the longest duration, above the entry's
\* MinIdleDuration and the global After.
C6_Witness ==
    /\ got.called
    /\ ~Excluded(got.conn)
    /\ Matching(got.conn) # {}
    /\ FirstMatching(got.conn).RequireConfirmation
    /\ got.duration = MaxIdle
    /\ got.duration >= FirstMatching(got.conn).MinIdleDuration
    /\ got.duration >= cfg.After
    /\ ~got.result

\* C7: for a session that is not excluded, shouldTerminate is true when no
\* protected entry names its application, and when the first entry that does
\* has RequireConfirmation unset it is (duration >= that entry's
\* MinIdleDuration).
C7_ReferenceDecision ==
    (got.called /\ ~Excluded(got.conn)) =>
       IF Matching(got.conn) = {} THEN got.result
       ELSE ~FirstMatching(got.conn).RequireConfirmation =>
              (got.result = (got.duration >= FirstMatching(got.conn).MinIdleDuration))

\* A session at or past After is refused on the threshold of the first of two
\* entries naming its application, though it has reached the second's.
C7_Witness ==
    /\ got.called
    /\ ~Excluded(got.conn)
    /\ Cardinality(Matching(got.conn)) = 2
    /\ ~FirstMatching(got.conn).RequireConfirmation
    /\ got.duration >= cfg.After
    /\ got.duration < FirstMatching(got.conn).MinIdleDuration
    /\ \E i \in Matching(got.conn) :
         /\ ~cfg.ProtectedApps[i].RequireConfirmation
         /\ got.duration >= cfg.ProtectedApps[i].MinIdleDuration
    /\ ~got.result

====
